---- MODULE Spec2Model ----
(***************************************************************************)
(* Webhook signature verification of rocket-webhook.                       *)
(*                                                                         *)
(* Strings are sequences of one-character strings, bytes are integers in   *)
(* 0..255.  The HMAC-SHA256, Ed25519 and ECDSA primitives are library      *)
(* calls; they are modelled by a keyed polynomial digest of three bytes    *)
(* that has the primitives' contract on the inputs the model draws: the    *)
(* digest is a function of the key and of the concatenation of the bytes   *)
(* fed, and different (key, message) pairs of the model give different     *)
(* digests (DigestsDistinct).                                              *)
(***************************************************************************)
EXTENDS Integers, Sequences, FiniteSets, TLC

\* ------------------------------------------------------------------ bounds
\* Largest number of items (chunks, or chunks then a read error) of a body stream.
MaxChunks == 2
\* Largest number of candidate signatures a multi-signature header carries.
MaxSigs == 2

\* ------------------------------------------------------------ characters
Digits == <<"0","1","2","3","4","5","6","7","8","9">>
UpperAZ == <<"A","B","C","D","E","F","G","H","I","J","K","L","M","N","O","P","Q","R","S","T","U","V","W","X","Y","Z">>
LowerAZ == <<"a","b","c","d","e","f","g","h","i","j","k","l","m","n","o","p","q","r","s","t","u","v","w","x","y","z">>
Punct == <<" ", "!", "+", ",", "-", ".", "/", ":", "=", "_">>
PunctCode == <<32, 33, 43, 44, 45, 46, 47, 58, 61, 95>>

Range(s) == {s[i] : i \in 1..Len(s)}
IndexOf(s, c) == CHOOSE i \in 1..Len(s) : s[i] = c

Chars == Range(Digits) \cup Range(UpperAZ) \cup Range(LowerAZ) \cup Range(Punct)

\* The ASCII code of a character (str::as_bytes on ASCII text).
OrdTable ==
  [c \in Chars |->
     IF c \in Range(Digits) THEN 47 + IndexOf(Digits, c)
     ELSE IF c \in Range(UpperAZ) THEN 64 + IndexOf(UpperAZ, c)
     ELSE IF c \in Range(LowerAZ) THEN 96 + IndexOf(LowerAZ, c)
     ELSE PunctCode[IndexOf(Punct, c)]]
Ord(c) == OrdTable[c]
AsBytes(s) == [i \in 1..Len(s) |-> Ord(s[i])]

\* ASCII lower-casing of one character and of a string (uncased header names).
LowerTable ==
  [c \in Chars |-> IF c \in Range(UpperAZ) THEN LowerAZ[IndexOf(UpperAZ, c)] ELSE c]
ToLower(s) == [i \in 1..Len(s) |-> LowerTable[s[i]]]
UncasedEq(a, b) == ToLower(a) = ToLower(b)

\* str::strip_prefix: the rest of the string after one leading copy of the prefix.
StartsWith(s, p) == Len(p) <= Len(s) /\ SubSeq(s, 1, Len(p)) = p
StripPrefix(s, p) == SubSeq(s, Len(p) + 1, Len(s))

\* str::split on a one-character separator: the parts, in order (never empty).
RECURSIVE SplitFrom(_, _, _, _)
SplitFrom(s, sep, i, cur) ==
  IF i > Len(s) THEN <<cur>>
  ELSE IF s[i] = sep THEN <<cur>> \o SplitFrom(s, sep, i + 1, <<>>)
  ELSE SplitFrom(s, sep, i + 1, Append(cur, s[i]))
Split(s, sep) == SplitFrom(s, sep, 1, <<>>)

\* Iterator::filter_map(|s| s.strip_prefix(p)): the stripped parts that had the prefix.
RECURSIVE FilterStrip(_, _)
FilterStrip(parts, p) ==
  IF parts = <<>> THEN <<>>
  ELSE (IF StartsWith(Head(parts), p) THEN <<StripPrefix(Head(parts), p)>> ELSE <<>>)
       \o FilterStrip(Tail(parts), p)

RECURSIVE Concat(_)
Concat(seqs) == IF seqs = <<>> THEN <<>> ELSE Head(seqs) \o Concat(Tail(seqs))

RECURSIVE JoinWith(_, _)
JoinWith(parts, sep) ==
  IF parts = <<>> THEN <<>>
  ELSE IF Len(parts) = 1 THEN Head(parts)
  ELSE Head(parts) \o <<sep>> \o JoinWith(Tail(parts), sep)

\* --------------------------------------------------------------- decoding
\* A decode result: ok = FALSE is the Err of the library call.
DecodeErr == [ok |-> FALSE, bytes |-> <<>>]
DecodeOk(b) == [ok |-> TRUE, bytes |-> b]

HexDigits == <<"0","1","2","3","4","5","6","7","8","9","a","b","c","d","e","f">>
HexUpper == <<"0","1","2","3","4","5","6","7","8","9","A","B","C","D","E","F">>
IsHex(c) == c \in Range(HexDigits) \cup Range(HexUpper)
HexVal(c) == IF c \in Range(HexDigits) THEN IndexOf(HexDigits, c) - 1
             ELSE IndexOf(HexUpper, c) - 1

\* hex::decode: odd length or a non-hex character is an error; either case of a-f.
HexDecode(s) ==
  IF Len(s) % 2 # 0 \/ \E i \in 1..Len(s) : ~IsHex(s[i]) THEN DecodeErr
  ELSE DecodeOk([i \in 1..(Len(s) \div 2) |-> 16 * HexVal(s[2*i - 1]) + HexVal(s[2*i])])
\* hex::encode (lower case), as the senders of the tests write the signature.
HexEncode(b) ==
  [i \in 1..(2 * Len(b)) |->
     IF i % 2 = 1 THEN HexDigits[(b[(i + 1) \div 2] \div 16) + 1]
     ELSE HexDigits[(b[i \div 2] % 16) + 1]]

B64Alphabet == UpperAZ \o LowerAZ \o Digits \o <<"+", "/">>
IsB64(c) == c \in Range(B64Alphabet)
B64Val(c) == IndexOf(B64Alphabet, c) - 1

\* The number of trailing '=' of a string.
RECURSIVE PadCount(_)
PadCount(s) ==
  IF s # <<>> /\ s[Len(s)] = "=" THEN 1 + PadCount(SubSeq(s, 1, Len(s) - 1)) ELSE 0

\* The bytes of one group of four base64 characters, the last `pad` of them '='.
B64Group(g, pad) ==
  LET v1 == B64Val(g[1])
      v2 == B64Val(g[2])
      v3 == IF pad >= 2 THEN 0 ELSE B64Val(g[3])
      v4 == IF pad >= 1 THEN 0 ELSE B64Val(g[4])
      n == ((v1 * 64 + v2) * 64 + v3) * 64 + v4
      all == <<n \div 65536, (n \div 256) % 256, n % 256>>
  IN SubSeq(all, 1, 3 - pad)
\* Non-canonical trailing bits under the padding are rejected by BASE64_STANDARD.
B64GroupCanonical(g, pad) ==
  /\ pad = 1 => B64Val(g[3]) % 4 = 0
  /\ pad = 2 => B64Val(g[2]) % 16 = 0

\* base64 BASE64_STANDARD.decode: a multiple of four characters of the standard
\* alphabet, at most two '=' and only at the end, canonical trailing bits.
Base64Decode(s) ==
  LET pad == PadCount(s)
      n == Len(s) \div 4
  IN IF \/ Len(s) % 4 # 0
        \/ pad > 2
        \/ \E i \in 1..(Len(s) - pad) : ~IsB64(s[i])
     THEN DecodeErr
     ELSE IF n = 0 THEN DecodeOk(<<>>)
     ELSE IF ~B64GroupCanonical(SubSeq(s, 4*n - 3, 4*n), pad) THEN DecodeErr
     ELSE DecodeOk(Concat([k \in 1..n |->
                     B64Group(SubSeq(s, 4*k - 3, 4*k), IF k = n THEN pad ELSE 0)]))

\* BASE64_STANDARD.encode, as the senders write the signature.
B64EncodeGroup(b) ==
  LET k == Len(b)
      n == (b[1] * 256 + (IF k >= 2 THEN b[2] ELSE 0)) * 256 + (IF k >= 3 THEN b[3] ELSE 0)
      c == <<B64Alphabet[(n \div 262144) + 1], B64Alphabet[((n \div 4096) % 64) + 1],
             B64Alphabet[((n \div 64) % 64) + 1], B64Alphabet[(n % 64) + 1]>>
  IN IF k = 3 THEN c ELSE IF k = 2 THEN SubSeq(c, 1, 3) \o <<"=">>
     ELSE SubSeq(c, 1, 2) \o <<"=", "=">>
Base64Encode(b) ==
  Concat([k \in 1..((Len(b) + 2) \div 3) |->
            B64EncodeGroup(SubSeq(b, 3*k - 2, IF 3*k <= Len(b) THEN 3*k ELSE Len(b)))])

\* u32: a 32-bit unsigned value is the pair <<high, low>> of its 16-bit halves, so
\* that every value up to u32::MAX is exact.
U16 == 65536
U32Of(n) == <<n \div U16, n % U16>>
U32Zero == <<0, 0>>
U32Max == <<U16 - 1, U16 - 1>>
U32Lt(a, b) == a[1] < b[1] \/ (a[1] = b[1] /\ a[2] < b[2])
U32Le(a, b) == a = b \/ U32Lt(a, b)
\* u32::wrapping_sub, u32::saturating_sub, u32::saturating_add.
U32WrappingSub(a, b) ==
  LET borrow == IF a[2] < b[2] THEN 1 ELSE 0
  IN <<(a[1] - b[1] - borrow + U16) % U16, (a[2] - b[2] + U16) % U16>>
U32SaturatingSub(a, b) == IF U32Le(a, b) THEN U32Zero ELSE U32WrappingSub(a, b)
U32SaturatingAdd(a, b) ==
  LET lo == a[2] + b[2]
      hi == a[1] + b[1] + (lo \div U16)
  IN IF hi >= U16 THEN U32Max ELSE <<hi, lo % U16>>

\* str::parse::<u32>: decimal digits with an optional leading '+'; a value above
\* u32::MAX does not parse.
IsDigit(c) == c \in Range(Digits)
ParseErr == [ok |-> FALSE, val |-> U32Zero]
\* The digits of d from position i on, appended to the value acc.
RECURSIVE DecValue(_, _, _)
DecValue(d, i, acc) ==
  IF i > Len(d) THEN [ok |-> TRUE, val |-> acc]
  ELSE LET lo == acc[2] * 10 + (IndexOf(Digits, d[i]) - 1)
           hi == acc[1] * 10 + (lo \div U16)
       IN IF hi >= U16 THEN ParseErr ELSE DecValue(d, i + 1, <<hi, lo % U16>>)
ParseU32(s) ==
  LET d == IF s # <<>> /\ s[1] = "+" THEN Tail(s) ELSE s
  IN IF d = <<>> \/ \E i \in 1..Len(d) : ~IsDigit(d[i]) THEN ParseErr
     ELSE DecValue(d, 1, U32Zero)

\* u32::to_string: the decimal digits, by long division of the two halves.
RECURSIVE ToDec(_)
ToDec(n) ==
  LET rest == (n[1] % 10) * U16 + n[2]
      q == <<n[1] \div 10, rest \div 10>>
      digit == <<Digits[(rest % 10) + 1]>>
  IN IF q = U32Zero THEN digit ELSE ToDec(q) \o digit

\* ----------------------------------------------------------- primitives
\* The digest of the library primitives: a keyed polynomial digest of three bytes.
DigestModulus == 2^24 - 3
\* The bytes lo..hi folded into h from left to right, the range taken by halves:
\* the left half is reduced to its value before the right half is folded in.
RECURSIVE DigestFoldRange(_, _, _, _)
DigestFoldRange(h, bytes, lo, hi) ==
  IF lo > hi THEN h
  ELSE IF lo = hi THEN (h * 31 + bytes[lo] + 1) % DigestModulus
  ELSE LET mid == (lo + hi) \div 2
           left == DigestFoldRange(h, bytes, lo, mid)
       IN IF left < DigestModulus THEN DigestFoldRange(left, bytes, mid + 1, hi) ELSE left
DigestFold(h, bytes) == DigestFoldRange(h, bytes, 1, Len(bytes))
Digest(domain, key, data) ==
  LET k == DigestFold(domain, key)
      h == DigestFold((k * 127 + 7) % DigestModulus, data)
  IN <<h \div 65536, (h \div 256) % 256, h % 256>>

\* The key block of HMAC-SHA256: a key longer than the block of the hash is hashed
\* first, and the key is then padded with zero bytes to the length of the block,
\* so keys that differ only by trailing zero bytes are one key.
BLOCK_SIZE == 64
HmacKeyBlock(key) ==
  LET k == IF Len(key) > BLOCK_SIZE THEN Digest(0, <<>>, key) ELSE key
  IN k \o [i \in 1..(BLOCK_SIZE - Len(k)) |-> 0]
\* hmac::Mac: new_from_slice keys a fresh MAC, update appends to what was fed,
\* finalize gives the digest of the key block and of everything fed, in order.
UnkeyedMac == [keyed |-> FALSE, key |-> <<>>, data |-> <<>>]
MacNewFromSlice(key) == [keyed |-> TRUE, key |-> key, data |-> <<>>]
MacUpdate(m, bytes) == [m EXCEPT !.data = @ \o bytes]
MacFinalize(m) == Digest(1, HmacKeyBlock(m.key), m.data)
HmacSha256(key, data) == MacFinalize(MacUpdate(MacNewFromSlice(key), data))

\* A comparison that returns at the first byte that differs.
RECURSIVE EarlyExitFold(_, _, _, _)
EarlyExitFold(a, b, i, work) ==
  IF i > Len(a) THEN [eq |-> TRUE, work |-> work]
  ELSE IF a[i] # b[i] THEN [eq |-> FALSE, work |-> work + 1]
  ELSE EarlyExitFold(a, b, i + 1, work + 1)
early_exit_eq(a, b) ==
  IF Len(a) # Len(b) THEN [eq |-> FALSE, work |-> 0] ELSE EarlyExitFold(a, b, 1, 0)
\* subtle::ConstantTimeEq for [u8]: slices of different lengths are unequal at
\* once; otherwise x starts at 1 and is and-ed with the comparison of every pair
\* of bytes, to the end of the slices.  work counts the byte comparisons.
RECURSIVE CtEqFold(_, _, _, _, _)
CtEqFold(a, b, i, x, work) ==
  IF i > Len(a) THEN [eq |-> x = 1, work |-> work]
  ELSE CtEqFold(a, b, i + 1, IF a[i] = b[i] THEN x ELSE 0, work + 1)
ct_eq(a, b) ==
  IF Len(a) # Len(b) THEN [eq |-> FALSE, work |-> 0] ELSE CtEqFold(a, b, 1, 1, 0)
\* A comparison whose loop stops one byte short.
CtEqShort(a, b) == Len(a) = Len(b) /\ \A i \in 1..(Len(a) - 1) : a[i] = b[i]
\* body_sig.ct_eq(&signature).into()
CtEq(a, b) == ct_eq(a, b).eq

\* Public-key algorithms.  A key pair is named by its public key bytes: the holder
\* of the private key signs with PkSign, and verify accepts exactly that signature.
PkSign(alg, public_key, message) ==
  Digest(IF alg = "Ed25519" THEN 2 ELSE 3, public_key, message)
Ed25519Verify(public_key, message, signature) ==
  signature = PkSign("Ed25519", public_key, message)
EcdsaP256Asn1Verify(public_key, message, signature) ==
  signature = PkSign("EcdsaP256Asn1", public_key, message)

\* ------------------------------------------------------------- outcomes
\* rocket::data::Outcome<Vec<u8>, WebhookError>: Success(bytes) or
\* Error((status, WebhookError)).  msg and arg are the error's detail.
Success(bytes) ==
  [tag |-> "Success", status |-> "None", kind |-> "None", msg |-> "", arg |-> <<>>,
   hasData |-> TRUE, data |-> bytes]
Error(status, kind, msg, arg) ==
  [tag |-> "Error", status |-> status, kind |-> kind, msg |-> msg, arg |-> arg,
   hasData |-> FALSE, data |-> <<>>]
Pending ==
  [tag |-> "Pending", status |-> "None", kind |-> "None", msg |-> "", arg |-> <<>>,
   hasData |-> FALSE, data |-> <<>>]
ErrorKinds == {"Signature", "MissingHeader", "InvalidHeader", "Timestamp",
               "Deserialize", "Read", "NotAttached"}

\* The result of a hook: Ok(value), or Err(the Outcome::Error to return).
Ok(v) == [ok |-> TRUE, val |-> v, err |-> Pending]
Err(e) == [ok |-> FALSE, val |-> <<>>, err |-> e]
None == [some |-> FALSE, val |-> <<>>]
Some(v) == [some |-> TRUE, val |-> v]

\* ---------------------------------------------------------- header names
H_GITHUB_SIG == <<"X","-","H","u","b","-","S","i","g","n","a","t","u","r","e","-","2","5","6">>
P_SHA256 == <<"s","h","a","2","5","6","=">>
H_SHOPIFY_SIG == <<"X","-","S","h","o","p","i","f","y","-","H","m","a","c","-","S","h","a","2","5","6">>
H_SLACK_SIG == <<"X","-","S","l","a","c","k","-","S","i","g","n","a","t","u","r","e">>
P_V0 == <<"v","0","=">>
H_SLACK_TS == <<"X","-","S","l","a","c","k","-","R","e","q","u","e","s","t","-","T","i","m","e","s","t","a","m","p">>
H_STRIPE_SIG == <<"S","t","r","i","p","e","-","S","i","g","n","a","t","u","r","e">>
P_V1_EQ == <<"v","1","=">>
P_T_EQ == <<"t","=">>
H_SVIX_ID == <<"s","v","i","x","-","i","d">>
H_SVIX_TS == <<"s","v","i","x","-","t","i","m","e","s","t","a","m","p">>
H_SVIX_SIG == <<"s","v","i","x","-","s","i","g","n","a","t","u","r","e">>
P_V1_COMMA == <<"v","1",",">>
H_STD_ID == <<"w","e","b","h","o","o","k","-","i","d">>
H_STD_TS == <<"w","e","b","h","o","o","k","-","t","i","m","e","s","t","a","m","p">>
H_STD_SIG == <<"w","e","b","h","o","o","k","-","s","i","g","n","a","t","u","r","e">>
H_DISCORD_SIG == <<"X","-","S","i","g","n","a","t","u","r","e","-","E","d","2","5","5","1","9">>
H_DISCORD_TS == <<"X","-","S","i","g","n","a","t","u","r","e","-","T","i","m","e","s","t","a","m","p">>
H_SENDGRID_SIG == <<"X","-","T","w","i","l","i","o","-","E","m","a","i","l","-","E","v","e","n","t","-","W","e","b","h","o","o","k","-","S","i","g","n","a","t","u","r","e">>
H_SENDGRID_TS == <<"X","-","T","w","i","l","i","o","-","E","m","a","i","l","-","E","v","e","n","t","-","W","e","b","h","o","o","k","-","T","i","m","e","s","t","a","m","p">>
H_GENERIC_SIG == <<"S","i","g","n","a","t","u","r","e","-","S","H","A","2","5","6">>
H_GENERIC_TS == <<"T","i","m","e","s","t","a","m","p">>

\* --------------------------------------------------------------- providers
HmacProviders == {"GitHub", "Shopify", "Slack", "Stripe", "Svix", "Standard", "Generic"}
PublicKeyProviders == {"Discord", "SendGrid"}
Providers == HmacProviders \cup PublicKeyProviders
MultiSigProviders == {"Stripe", "Svix", "Standard"}

\* ------------------------------------------------------- header accessor
\* A lookup that matches names exactly, case included.
RECURSIVE GetOneExact(_, _)
GetOneExact(headers, name) ==
  IF headers = <<>> THEN None
  ELSE IF Head(headers).name = name THEN Some(Head(headers).value)
  ELSE GetOneExact(Tail(headers), name)
\* rocket HeaderMap::get_one: the first value whose name matches, ignoring case.
RECURSIVE GetOne(_, _)
GetOne(headers, name) ==
  IF headers = <<>> THEN None
  ELSE IF UncasedEq(Head(headers).name, name) THEN Some(Head(headers).value)
  ELSE GetOne(Tail(headers), name)

\* ------------------------------------------------------- the length hint
\* usize values are kept as decimal numerals without leading zeros, so that the
\* whole 64-bit range is exact.
H_CONTENT_LENGTH == <<"C","o","n","t","e","n","t","-","L","e","n","g","t","h">>
USIZE_MAX == <<"1","8","4","4","6","7","4","4","0","7","3","7","0","9","5","5","1","6","1","5">>
ISIZE_MAX == <<"9","2","2","3","3","7","2","0","3","6","8","5","4","7","7","5","8","0","7">>
RECURSIVE StripZeros(_)
StripZeros(d) == IF Len(d) > 1 /\ d[1] = "0" THEN StripZeros(Tail(d)) ELSE d
RECURSIVE UsizeLe(_, _)
UsizeLe(a, b) ==
  IF Len(a) # Len(b) THEN Len(a) < Len(b)
  ELSE IF a = <<>> THEN TRUE
  ELSE IF a[1] # b[1] THEN IndexOf(Digits, a[1]) < IndexOf(Digits, b[1])
  ELSE UsizeLe(Tail(a), Tail(b))
\* str::parse::<usize>: an optional '+', then digits only, at most usize::MAX.
ParseUsize(s) ==
  LET d == IF s # <<>> /\ s[1] = "+" THEN Tail(s) ELSE s
  IN IF d = <<>> \/ \E i \in 1..Len(d) : ~IsDigit(d[i]) THEN None
     ELSE IF ~UsizeLe(StripZeros(d), USIZE_MAX) THEN None
     ELSE Some(StripZeros(d))
\* headers.get_one("Content-Length").and_then(|len| len.parse().ok())
body_size(headers) ==
  LET len == GetOne(headers, H_CONTENT_LENGTH)
  IN IF len.some THEN ParseUsize(len.val) ELSE None
\* The capacity asked for when no length is declared, and the size of the user
\* address space of a 64-bit process (2^47 bytes).
DEFAULT_CAPACITY == <<"5", "1", "2">>
ADDRESS_SPACE == <<"1","4","0","7","3","7","4","8","8","3","5","5","3","2","8">>
\* Vec::with_capacity(body_size(req.headers()).unwrap_or(512)).  A capacity above
\* isize::MAX bytes panics with "capacity overflow".  Any other capacity is asked
\* of the allocator at once: when the allocator cannot serve it the process
\* aborts ("memory allocation of .. bytes failed"), without unwinding and without
\* an outcome.  A capacity that does not fit the address space is never served;
\* one above the default capacity is served or not, as the memory of the machine
\* allows.
VecWithCapacity(hint) ==
  LET capacity == IF hint.some THEN hint.val ELSE DEFAULT_CAPACITY
  IN [capacity |-> capacity,
      outcomes |->
        IF ~UsizeLe(capacity, ISIZE_MAX) THEN {"panicked"}
        ELSE IF UsizeLe(ADDRESS_SPACE, capacity) THEN {"aborted"}
        ELSE IF UsizeLe(capacity, DEFAULT_CAPACITY) THEN {"vec"}
        ELSE {"vec", "aborted"}]

\* Webhook::get_header(req, name, prefix).
get_header(headers, name, prefix) ==
  LET found == GetOne(headers, name)
  IN IF found.some
     THEN IF ~prefix.some THEN Ok(found.val)
          ELSE IF StartsWith(found.val, prefix.val)
               THEN Ok(StripPrefix(found.val, prefix.val))
               ELSE Err(Error("BadRequest", "InvalidHeader",
                              "doesn't have required prefix", name))
     ELSE Err(Error("BadRequest", "MissingHeader", "Missing header", name))

\* A validator whose bounds are exclusive at both ends.
validate_timestamp_exclusive(timestamp, time_bounds) ==
  LET t == ParseU32(timestamp)
  IN IF t.ok /\ U32Lt(time_bounds[1], t.val) /\ U32Lt(t.val, time_bounds[2])
     THEN Ok(t.val)
     ELSE Err(Error("BadRequest", "Timestamp", "Invalid timestamp", timestamp))
\* Webhook::validate_timestamp(timestamp, (min, max)).
validate_timestamp(timestamp, time_bounds) ==
  LET t == ParseU32(timestamp)
  IN IF t.ok /\ U32Le(time_bounds[1], t.val) /\ U32Le(t.val, time_bounds[2])
     THEN Ok(t.val)
     ELSE Err(Error("BadRequest", "Timestamp", "Invalid timestamp", timestamp))

\* ------------------------------------------------------------ HMAC hooks
Decode(enc, s) == IF enc = "hex" THEN HexDecode(s) ELSE Base64Decode(s)

\* A loop that passes over a candidate that does not decode.
RECURSIVE DecodeAllSkip(_, _, _)
DecodeAllSkip(parts, enc, done) ==
  IF parts = <<>> THEN Ok(done)
  ELSE LET d == Decode(enc, Head(parts))
       IN DecodeAllSkip(Tail(parts), enc, IF d.ok THEN Append(done, d.bytes) ELSE done)
\* The loop of the multi-signature providers: decode every listed candidate in
\* header order; the first one that does not decode ends the loop with an error.
RECURSIVE DecodeAll(_, _, _)
DecodeAll(parts, enc, done) ==
  IF parts = <<>> THEN Ok(done)
  ELSE LET d == Decode(enc, Head(parts))
       IN IF d.ok THEN DecodeAll(Tail(parts), enc, Append(done, d.bytes))
          ELSE Err(Error("BadRequest", "InvalidHeader", "Signature was not valid", Head(parts)))

\* One signature in one header, with an optional literal prefix.
SingleSignature(headers, name, prefix, enc) ==
  LET h == get_header(headers, name, prefix)
  IN IF ~h.ok THEN h
     ELSE LET d == Decode(enc, h.val)
          IN IF d.ok THEN Ok(<<d.bytes>>)
             ELSE Err(Error("BadRequest", "InvalidHeader", "header was not valid", h.val))

GitHubExpectedSignatures(headers) == SingleSignature(headers, H_GITHUB_SIG, Some(P_SHA256), "hex")
ShopifyExpectedSignatures(headers) == SingleSignature(headers, H_SHOPIFY_SIG, None, "base64")
SlackExpectedSignatures(headers) == SingleSignature(headers, H_SLACK_SIG, Some(P_V0), "hex")

StripeExpectedSignatures(headers) ==
  LET h == get_header(headers, H_STRIPE_SIG, None)
  IN IF ~h.ok THEN h
     ELSE DecodeAll(FilterStrip(Split(h.val, ","), P_V1_EQ), "hex", <<>>)

SvixExpectedSignatures(headers) ==
  LET h == get_header(headers, H_SVIX_SIG, None)
  IN IF ~h.ok THEN h
     ELSE DecodeAll(FilterStrip(Split(h.val, " "), P_V1_COMMA), "base64", <<>>)

StandardExpectedSignatures(headers) ==
  LET h == get_header(headers, H_STD_SIG, None)
  IN IF ~h.ok THEN h
     ELSE DecodeAll(FilterStrip(Split(h.val, " "), P_V1_COMMA), "base64", <<>>)

\* The closure of the custom webhook: the hex signature of one header, or None.
GenericSignaturesFn(headers) ==
  LET h == GetOne(headers, H_GENERIC_SIG)
  IN IF h.some /\ HexDecode(h.val).ok THEN Some(<<HexDecode(h.val).bytes>>) ELSE None
GenericExpectedSignatures(headers) ==
  LET r == GenericSignaturesFn(headers)
  IN IF r.some THEN Ok(r.val)
     ELSE Err(Error("BadRequest", "Signature",
                    "Valid signature(s) not provided in request", <<>>))

\* WebhookHmac::expected_signatures of each provider.
ExpectedSignatures(p, headers) ==
  CASE p = "GitHub" -> GitHubExpectedSignatures(headers)
    [] p = "Shopify" -> ShopifyExpectedSignatures(headers)
    [] p = "Slack" -> SlackExpectedSignatures(headers)
    [] p = "Stripe" -> StripeExpectedSignatures(headers)
    [] p = "Svix" -> SvixExpectedSignatures(headers)
    [] p = "Standard" -> StandardExpectedSignatures(headers)
    [] p = "Generic" -> GenericExpectedSignatures(headers)

\* A prefix built from the parsed timestamp, written out again in decimal.
SlackBodyPrefixReformatted(headers, time_bounds) ==
  LET ts == get_header(headers, H_SLACK_TS, None)
  IN IF ~ts.ok THEN ts
     ELSE LET v == validate_timestamp(ts.val, time_bounds)
          IN IF ~v.ok THEN v
             ELSE Ok(Some(AsBytes(<<"v", "0", ":">>) \o AsBytes(ToDec(ParseU32(ts.val).val))
                          \o AsBytes(<<":">>)))
SlackBodyPrefix(headers, time_bounds) ==
  LET ts == get_header(headers, H_SLACK_TS, None)
  IN IF ~ts.ok THEN ts
     ELSE LET v == validate_timestamp(ts.val, time_bounds)
          IN IF ~v.ok THEN v
             ELSE Ok(Some(AsBytes(<<"v", "0", ":">>) \o AsBytes(ts.val) \o AsBytes(<<":">>)))

\* A search that keeps the last part with the prefix.
FindStripLast(parts, p) ==
  LET hits == FilterStrip(parts, p)
  IN IF hits = <<>> THEN None ELSE Some(hits[Len(hits)])
\* Iterator::find_map(|part| part.strip_prefix("t=")): the first part with the prefix.
FindStrip(parts, p) ==
  LET hits == FilterStrip(parts, p)
  IN IF hits = <<>> THEN None ELSE Some(Head(hits))

StripeBodyPrefix(headers, time_bounds) ==
  LET h == get_header(headers, H_STRIPE_SIG, None)
  IN IF ~h.ok THEN h
     ELSE LET ts == FindStrip(Split(h.val, ","), P_T_EQ)
          IN IF ~ts.some
             THEN Err(Error("BadRequest", "InvalidHeader", "Did not find timestamp in header", h.val))
             ELSE LET v == validate_timestamp(ts.val, time_bounds)
                  IN IF ~v.ok THEN v
                     ELSE Ok(Some(AsBytes(ts.val) \o AsBytes(<<".">>)))

IdTimestampPrefix(headers, id_header, time_header, time_bounds) ==
  LET id == get_header(headers, id_header, None)
  IN IF ~id.ok THEN id
     ELSE LET ts == get_header(headers, time_header, None)
          IN IF ~ts.ok THEN ts
             ELSE LET v == validate_timestamp(ts.val, time_bounds)
                  IN IF ~v.ok THEN v
                     ELSE Ok(Some(AsBytes(id.val) \o AsBytes(<<".">>) \o AsBytes(ts.val)
                                  \o AsBytes(<<".">>)))
SvixBodyPrefix(headers, time_bounds) ==
  IdTimestampPrefix(headers, H_SVIX_ID, H_SVIX_TS, time_bounds)
StandardBodyPrefix(headers, time_bounds) ==
  IdTimestampPrefix(headers, H_STD_ID, H_STD_TS, time_bounds)

\* The suffix closure of the custom webhook: the Timestamp header, strictly inside
\* the time bounds, as bytes.
GenericSuffixFn(headers, time_bounds) ==
  LET h == GetOne(headers, H_GENERIC_TS)
      t == ParseU32(h.val)
  IN IF h.some /\ t.ok /\ U32Lt(time_bounds[1], t.val) /\ U32Lt(t.val, time_bounds[2])
     THEN Ok(AsBytes(h.val))
     ELSE Err(Error("BadRequest", "Timestamp", "Missing/invalid timestamp", <<>>))
\* Hmac256Webhook::body_prefix (no prefix closure is configured).
GenericBodyPrefix(headers, time_bounds) == Ok(None)
\* Hmac256Webhook::body_suffix.
GenericBodySuffix(headers, time_bounds) ==
  LET r == GenericSuffixFn(headers, time_bounds)
  IN IF r.ok THEN Ok(Some(r.val)) ELSE r

\* WebhookHmac::body_prefix of each provider (the trait's default is no prefix).
BodyPrefix(p, headers, time_bounds) ==
  CASE p = "Slack" -> SlackBodyPrefix(headers, time_bounds)
    [] p = "Stripe" -> StripeBodyPrefix(headers, time_bounds)
    [] p = "Svix" -> SvixBodyPrefix(headers, time_bounds)
    [] p = "Standard" -> StandardBodyPrefix(headers, time_bounds)
    [] p = "Generic" -> GenericBodyPrefix(headers, time_bounds)
    [] OTHER -> Ok(None)

\* ------------------------------------------------------- public-key hooks
DiscordExpectedSignature(headers) ==
  LET r == SingleSignature(headers, H_DISCORD_SIG, None, "hex")
  IN IF r.ok THEN Ok(r.val[1]) ELSE r
SendGridExpectedSignature(headers) ==
  LET r == SingleSignature(headers, H_SENDGRID_SIG, None, "base64")
  IN IF r.ok THEN Ok(r.val[1]) ELSE r
ExpectedSignature(p, headers) ==
  CASE p = "Discord" -> DiscordExpectedSignature(headers)
    [] p = "SendGrid" -> SendGridExpectedSignature(headers)

DiscordMessageToVerify(headers, body, time_bounds) ==
  LET ts == get_header(headers, H_DISCORD_TS, None)
  IN IF ~ts.ok THEN ts
     ELSE LET v == validate_timestamp(ts.val, time_bounds)
          IN IF ~v.ok THEN v ELSE Ok(AsBytes(ts.val) \o body)
SendGridMessageToVerify(headers, body) ==
  LET ts == get_header(headers, H_SENDGRID_TS, None)
  IN IF ~ts.ok THEN ts ELSE Ok(AsBytes(ts.val) \o body)
MessageToVerify(p, headers, body, time_bounds) ==
  CASE p = "Discord" -> DiscordMessageToVerify(headers, body, time_bounds)
    [] p = "SendGrid" -> SendGridMessageToVerify(headers, body)

\* WebhookPublicKeyAlgorithm::verify of the provider's ALG.
AlgVerify(p, public_key, message, signature) ==
  CASE p = "Discord" -> Ed25519Verify(public_key, message, signature)
    [] p = "SendGrid" -> EcdsaP256Asn1Verify(public_key, message, signature)
AlgOf(p) == IF p = "Discord" THEN "Ed25519" ELSE "EcdsaP256Asn1"

\* ---------------------------------------------------------- configuration
\* The key each provider is built with: the secret of an HMAC provider, the public
\* key of a public-key provider.
KeyOf(p) ==
  CASE p = "GitHub" -> AsBytes(<<"g", "h", "-", "k", "e", "y">>)
    [] p = "Shopify" -> AsBytes(<<"s", "h", "o", "p">>)
    [] p = "Slack" -> AsBytes(<<"s", "l", "a", "c", "k", "-", "1">>)
    [] p = "Stripe" -> AsBytes(<<"w", "h", "s", "e", "c">>)
    [] p = "Svix" -> AsBytes(<<"s", "v", "i", "x">>)
    [] p = "Standard" -> AsBytes(<<"s", "t", "d">>)
    [] p = "Generic" -> AsBytes(<<"m", "y", "-", "s", "e", "c", "r", "e", "t">>)
    [] p = "Discord" -> AsBytes(<<"2", "5", "B", "5">>)
    [] p = "SendGrid" -> AsBytes(<<"B", "P", "2", "I">>)

\* The markers that tell two configurations of one provider type apart; without
\* one, the marker of RocketWebhook<W, M = W> is the provider type itself.
Markers == {"Account1", "Account2"}
\* The secret or key of the configuration of provider p registered under marker m.
KeyFor(p, m) ==
  CASE m = "Account1" -> KeyOf(p) \o <<45, 49>>
    [] m = "Account2" -> KeyOf(p) \o <<45, 50>>
    [] OTHER -> KeyOf(p)

\* RocketWebhook::builder().webhook(..).build() of every provider, with the defaults.
Config0 ==
  [webhook |-> [k \in {<<p, p>> : p \in Providers} |-> [key |-> KeyFor(k[1], k[2])]],
   max_body_size |-> 64 * 1024,
   timestamp_tolerance |-> <<U32Of(5 * 60), U32Of(15)>>]

\* Time bounds whose subtraction wraps around.
TimeBoundsWrapping(now, tolerance) ==
  <<U32WrappingSub(now, tolerance[1]), U32SaturatingAdd(now, tolerance[2])>>
\* The time bounds of a request: (now - past, now + future), the lower one clamped.
TimeBounds(now, tolerance) ==
  <<U32SaturatingSub(now, tolerance[1]), U32SaturatingAdd(now, tolerance[2])>>

\* ----------------------------------------------------------------- senders
\* The requests the model draws are written by a sender from a recipe: which
\* signatures the signature header lists and how each was made, which timestamp
\* and id it carries, and the chunks of its body stream.
NowValues == {U32Of(1000)}

HasTimestamp(p) == p \in {"Slack", "Stripe", "Svix", "Standard", "Discord", "SendGrid", "Generic"}
HasId(p) == p \in {"Svix", "Standard"}
EncOf(p) == IF p \in {"Shopify", "Svix", "Standard", "SendGrid"} THEN "base64" ELSE "hex"
SigHeaderOf(p) ==
  CASE p = "GitHub" -> H_GITHUB_SIG [] p = "Shopify" -> H_SHOPIFY_SIG
    [] p = "Slack" -> H_SLACK_SIG [] p = "Stripe" -> H_STRIPE_SIG
    [] p = "Svix" -> H_SVIX_SIG [] p = "Standard" -> H_STD_SIG
    [] p = "Generic" -> H_GENERIC_SIG [] p = "Discord" -> H_DISCORD_SIG
    [] p = "SendGrid" -> H_SENDGRID_SIG
TsHeaderOf(p) ==
  CASE p = "Slack" -> H_SLACK_TS [] p = "Svix" -> H_SVIX_TS [] p = "Standard" -> H_STD_TS
    [] p = "Generic" -> H_GENERIC_TS [] p = "Discord" -> H_DISCORD_TS
    [] p = "SendGrid" -> H_SENDGRID_TS
IdHeaderOf(p) == IF p = "Svix" THEN H_SVIX_ID ELSE H_STD_ID
SigPrefixOf(p) ==
  CASE p = "GitHub" -> P_SHA256 [] p = "Slack" -> P_V0 [] OTHER -> <<>>

\* The i-th chunk of a body; consecutive chunks differ.
Chunk(i) == IF i % 2 = 1 THEN <<103 + i, 105>> ELSE <<32 + i>>
ChunkItem(i) == [ok |-> TRUE, bytes |-> Chunk(i)]
ReadError == [ok |-> FALSE, bytes |-> <<>>]
CleanStream(k) == [i \in 1..k |-> ChunkItem(i)]
\* A body stream: chunks to the end of the body, or chunks and then a read error.
Streams ==
  {CleanStream(k) : k \in 0..MaxChunks}
  \cup {Append(CleanStream(k), ReadError) : k \in 0..(MaxChunks - 1)}
\* The bytes of the chunks of a stream that arrive before its end or its error.
RECURSIVE ChunkBytes(_)
ChunkBytes(stream) ==
  IF stream = <<>> \/ ~Head(stream).ok THEN <<>>
  ELSE Head(stream).bytes \o ChunkBytes(Tail(stream))
StreamHasError(stream) == \E i \in 1..Len(stream) : ~stream[i].ok

TsKinds == {"absent", "fresh", "stale", "future", "junk"}
TsString(kind, tb, now) ==
  CASE kind = "fresh" -> ToDec(now)
    [] kind = "stale" -> ToDec(U32SaturatingSub(tb[1], U32Of(1)))
    [] kind = "future" -> ToDec(U32SaturatingAdd(tb[2], U32Of(1)))
    [] kind = "junk" -> <<"1", "x">>
    [] kind = "plus" -> <<"+">> \o ToDec(now)
    [] kind = "zero" -> <<"0">> \o ToDec(now)
    [] kind = "absent" -> <<>>
IdString(kind) == IF kind = "present" THEN <<"m", "s", "g", "_", "1">> ELSE <<>>

\* The message each provider's sender signs, as the provider documents it.
DeclaredMessage(p, ts, id, body) ==
  CASE p \in {"GitHub", "Shopify"} -> body
    [] p = "Slack" -> AsBytes(<<"v", "0", ":">> \o ts \o <<":">>) \o body
    [] p = "Stripe" -> AsBytes(ts \o <<".">>) \o body
    [] p \in {"Svix", "Standard"} -> AsBytes(id \o <<".">> \o ts \o <<".">>) \o body
    [] p \in {"Discord", "SendGrid"} -> AsBytes(ts) \o body
    [] p = "Generic" -> body \o AsBytes(ts)

\* The signature the holder of the provider's key makes over a message.
SenderSign(p, key, message) ==
  IF p \in HmacProviders THEN HmacSha256(key, message)
  ELSE PkSign(AlgOf(p), key, message)
\* A signature with its lowest bit flipped.
FlipBit(sig) ==
  [sig EXCEPT ![Len(sig)] = IF @ % 2 = 0 THEN @ + 1 ELSE @ - 1]
Encode(enc, b) == IF enc = "hex" THEN HexEncode(b) ELSE Base64Encode(b)
UndecodableText(enc) == IF enc = "hex" THEN <<"z", "z">> ELSE <<"!", "!", "!", "!">>

\* The wire text of one candidate signature of a given kind.
SigText(p, key, kind, ts, id, body) ==
  CASE kind = "good" -> Encode(EncOf(p), SenderSign(p, key, DeclaredMessage(p, ts, id, body)))
    [] kind = "flip" ->
         Encode(EncOf(p), FlipBit(SenderSign(p, key, DeclaredMessage(p, ts, id, body))))
    [] kind = "bodyonly" -> Encode(EncOf(p), SenderSign(p, key, body))
    [] kind = "bodyflip" -> Encode(EncOf(p), FlipBit(SenderSign(p, key, body)))
    [] kind = "junk" -> UndecodableText(EncOf(p))

SigHeaderValue(p, key, r, ts, id, body) ==
  LET texts == [i \in 1..Len(r.sig) |-> SigText(p, key, r.sig[i], ts, id, body)]
  IN CASE p = "Stripe" ->
            JoinWith((IF r.ts = "absent" THEN <<>> ELSE <<P_T_EQ \o ts>>)
                     \o [i \in 1..Len(texts) |-> P_V1_EQ \o texts[i]], ",")
       [] p \in {"Svix", "Standard"} ->
            JoinWith([i \in 1..Len(texts) |-> P_V1_COMMA \o texts[i]], " ")
       [] OTHER -> (IF r.sigHeader = "noprefix" THEN <<>> ELSE SigPrefixOf(p)) \o texts[1]

Header(name, value) == [name |-> ToLower(name), value |-> value]
\* The headers of the request a recipe describes (names in lower case, as sent).
BuildHeaders(p, key, r, body, now) ==
  LET tb == TimeBounds(now, Config0.timestamp_tolerance)
      ts == TsString(r.ts, tb, now)
      id == IdString(r.id)
  IN (IF r.sigHeader = "absent" THEN <<>>
      ELSE <<Header(SigHeaderOf(p), SigHeaderValue(p, key, r, ts, id, body))>>)
     \o (IF HasTimestamp(p) /\ p # "Stripe" /\ r.ts # "absent"
         THEN <<Header(TsHeaderOf(p), ts)>> ELSE <<>>)
     \o (IF HasId(p) /\ r.id = "present" THEN <<Header(IdHeaderOf(p), id)>> ELSE <<>>)

SeqsUpTo(S, n) == UNION {[1..k -> S] : k \in 0..n}
SingleKinds(p) ==
  {"good", "flip", "junk"}
  \cup (IF p \in {"Slack", "Discord", "SendGrid", "Generic"}
        THEN {"bodyonly", "bodyflip"} ELSE {})
SigRecipes(p) ==
  IF p \in MultiSigProviders
  THEN {[sigHeader |-> "present", sig |-> q] : q \in SeqsUpTo({"good", "flip", "junk"}, MaxSigs)}
       \cup {[sigHeader |-> "absent", sig |-> <<>>]}
  ELSE {[sigHeader |-> "present", sig |-> <<k>>] : k \in SingleKinds(p)}
       \cup {[sigHeader |-> "absent", sig |-> <<>>]}
       \cup (IF SigPrefixOf(p) # <<>> THEN {[sigHeader |-> "noprefix", sig |-> <<"good">>]} ELSE {})
Recipes(p) ==
  {[sigHeader |-> s.sigHeader, sig |-> s.sig, ts |-> t, id |-> i] :
     s \in SigRecipes(p),
     t \in (IF HasTimestamp(p) THEN TsKinds ELSE {"absent"}),
     i \in (IF HasId(p) THEN {"present", "absent"} ELSE {"absent"})}
  \ {r \in [sigHeader : {"absent"}, sig : {<<>>}, ts : TsKinds \ {"absent"}, id : {"absent"}] :
       p = "Stripe"}

\* The request a sender who holds the key of marker `signer` writes, as it comes to
\* the route the application keeps for marker m, with the guard of provider p
\* (raw or deserializing) on it.
GuardRequest(p, m, signer, guard, r, stream, now) ==
  [provider |-> p, marker |-> m, signer |-> signer, guard |-> guard, recipe |-> r,
   stream |-> stream,
   now |-> now, headers |-> BuildHeaders(p, KeyFor(p, signer), r, ChunkBytes(stream), now)]
Request(p, r, stream, now) == GuardRequest(p, p, p, "raw", r, stream, now)
Requests ==
  UNION {{Request(p, r, st, now) : r \in Recipes(p), st \in Streams, now \in NowValues} :
           p \in Providers}

\* -------------------------------------------------------------------- state
VARIABLES
  config,     \* the registered provider configurations (RocketWebhook state)
  req,        \* the request being verified: provider, headers, body stream, time
  pc,         \* the position of the verification call
  run,        \* 1 for the first verification of the request, 2 for the second
  expected,   \* expected_signatures: the decoded candidate signatures
  mac,        \* the MAC of the call
  public_key, \* the public key obtained by the call
  raw_body,   \* the accumulation buffer
  pos,        \* the next item of the body stream
  outcome,    \* the Outcome of the call
  prev,       \* the Outcome of the first verification, kept for the second
  crypto,     \* what cryptographic work the call has done so far
  hq,         \* a helper called on its own: its arguments and its result
  others      \* the request verified at the same time, while it is suspended

vars == <<config, req, pc, run, expected, mac, public_key, raw_body, pos, outcome, prev,
          crypto, hq, others>>

NoQuery == [headers |-> <<>>, name |-> <<>>, prefix |-> None, asked |-> FALSE,
            result |-> Err(Pending)]

\* No other request is being verified.
NoOthers == <<>>
NoCrypto == [macKeyed |-> FALSE, macUpdates |-> 0, keyObtained |-> FALSE,
             verifyCalls |-> 0, compared |-> FALSE, bodyRead |-> FALSE,
             capacity |-> None, deserializeCalls |-> 0, message |-> None]

Init ==
  /\ config = Config0
  /\ req \in Requests
  /\ pc = "start"
  /\ run = 1
  /\ expected = <<>>
  /\ mac = UnkeyedMac
  /\ public_key = None
  /\ raw_body = <<>>
  /\ pos = 1
  /\ outcome = Pending
  /\ prev = Pending
  /\ crypto = NoCrypto
  /\ hq = NoQuery
  /\ others = NoOthers

\* The state the guard asks Rocket for: state::<RocketWebhook<W>>(), which is
\* RocketWebhook<W, W>.  The guards have no marker parameter, so the marker of
\* the route a request comes to plays no part in the lookup, and a configuration
\* registered under a marker is found by no guard.
GuardKey == <<req.provider, req.provider>>
Attached == GuardKey \in DOMAIN config.webhook
SecretKey(p) == config.webhook[GuardKey].key
time_bounds == TimeBounds(req.now, config.timestamp_tolerance)

\* A body opened without a limit.
DataOpenUnlimited(stream, limit) == stream
\* data.open(limit): the stream of the body cut after limit bytes.  Once limit
\* bytes have been handed out the stream ends, without an error and without
\* asking the connection for more; the chunk that crosses the limit is handed out
\* up to the limit; a read error met before that is passed on.
RECURSIVE DataOpen(_, _)
DataOpen(stream, limit) ==
  IF limit = 0 \/ stream = <<>> THEN <<>>
  ELSE IF ~Head(stream).ok THEN <<Head(stream)>>
  ELSE IF Len(Head(stream).bytes) <= limit
    THEN <<Head(stream)>> \o DataOpen(Tail(stream), limit - Len(Head(stream).bytes))
  ELSE <<[ok |-> TRUE, bytes |-> SubSeq(Head(stream).bytes, 1, limit)]>>
\* ReaderStream::new(data.open(config.max_body_size.bytes())): what the read loop
\* is given.
BodyStream == DataOpen(req.stream, config.max_body_size)

\* A guard that hands every body to the deserializer, verified or not.
AfterVerificationAlways(o) ==
  IF req.guard = "json" THEN "deserialize" ELSE "done"
\* Where the guard goes on after the verification: an error is returned as it
\* is, the raw guard returns the bytes, the deserializing guard parses them.
AfterVerification(o) ==
  IF req.guard = "json" /\ o.tag = "Success" THEN "deserialize" ELSE "done"
\* return Outcome::...: the verification ends.
Return(o) == outcome' = o /\ pc' = AfterVerification(o)

\* ---------------------------------------------------- WebhookHmac verifier
\* A verifier that builds the prefix, with its timestamp check, before it looks
\* at the signature header.
HmacPrefixFirst ==
  /\ pc = "start" /\ req.provider \in HmacProviders
  /\ LET r == ExpectedSignatures(req.provider, req.headers)
         pre == BodyPrefix(req.provider, req.headers, time_bounds)
     IN IF ~pre.ok THEN Return(pre.err) /\ expected' = expected
        ELSE IF r.ok THEN expected' = r.val /\ pc' = "mac_init" /\ outcome' = outcome
        ELSE Return(r.err) /\ expected' = expected
  /\ UNCHANGED <<config, req, run, mac, public_key, raw_body, pos, prev, crypto, hq, others>>
\* let expected_signatures = try_outcome!(self.expected_signatures(req));
HmacExpectedSignatures ==
  /\ pc = "start" /\ req.provider \in HmacProviders
  /\ LET r == ExpectedSignatures(req.provider, req.headers)
     IN IF r.ok THEN expected' = r.val /\ pc' = "mac_init" /\ outcome' = outcome
        ELSE Return(r.err) /\ expected' = expected
  /\ UNCHANGED <<config, req, run, mac, public_key, raw_body, pos, prev, crypto, hq, others>>

\* A MAC that is kept from one call to the next: it is keyed once, and a later
\* call goes on with what the earlier one fed into it.
HmacInitReuse ==
  /\ pc = "mac_init"
  /\ mac' = (IF mac.keyed THEN mac ELSE MacNewFromSlice(SecretKey(req.provider)))
  /\ crypto' = [crypto EXCEPT !.macKeyed = TRUE]
  /\ pc' = "prefix"
  /\ UNCHANGED <<config, req, run, expected, public_key, raw_body, pos, outcome, prev, hq, others>>
\* let mut mac = MAC::new_from_slice(self.secret_key());
HmacInit ==
  /\ pc = "mac_init"
  /\ mac' = MacNewFromSlice(SecretKey(req.provider))
  /\ crypto' = [crypto EXCEPT !.macKeyed = TRUE]
  /\ pc' = "prefix"
  /\ UNCHANGED <<config, req, run, expected, public_key, raw_body, pos, outcome, prev, hq, others>>

\* if let Some(prefix) = try_outcome!(self.body_prefix(req, time_bounds)) { mac.update(&prefix) }
\* let mut raw_body = Vec::with_capacity(body_size(req.headers()).unwrap_or(512));
HmacBodyPrefix ==
  /\ pc = "prefix"
  /\ LET r == BodyPrefix(req.provider, req.headers, time_bounds)
         buf == VecWithCapacity(body_size(req.headers))
     IN IF ~r.ok THEN Return(r.err) /\ UNCHANGED <<mac, raw_body, crypto>>
        ELSE /\ outcome' = outcome
             /\ mac' = (IF r.val.some THEN MacUpdate(mac, r.val.val) ELSE mac)
             /\ \E o \in buf.outcomes :
                  /\ pc' = (IF o = "vec" THEN "read" ELSE o)
                  /\ raw_body' = (IF o = "vec" THEN <<>> ELSE raw_body)
                  /\ crypto' = [crypto EXCEPT
                                  !.macUpdates = IF r.val.some THEN @ + 1 ELSE @,
                                  !.capacity = IF o = "vec" THEN Some(buf.capacity) ELSE @]
  /\ UNCHANGED <<config, req, run, expected, public_key, pos, prev, hq, others>>

\* A loop that feeds every chunk to the MAC twice.
HmacReadChunkTwice ==
  /\ pc = "read" /\ pos <= Len(BodyStream)
  /\ LET item == BodyStream[pos]
     IN IF item.ok
        THEN /\ mac' = MacUpdate(MacUpdate(mac, item.bytes), item.bytes)
             /\ raw_body' = raw_body \o item.bytes
             /\ crypto' = [crypto EXCEPT !.macUpdates = @ + 2]
             /\ pos' = pos + 1
             /\ UNCHANGED <<pc, outcome>>
        ELSE /\ Return(Error("BadRequest", "Read", "read error", <<>>))
             /\ pos' = pos + 1
             /\ UNCHANGED <<mac, raw_body, crypto>>
  /\ UNCHANGED <<config, req, run, expected, public_key, prev, hq, others>>
\* A loop that skips a failed read and goes on to the next item.
HmacReadChunkSkip ==
  /\ pc = "read" /\ pos <= Len(BodyStream)
  /\ LET item == BodyStream[pos]
     IN /\ mac' = MacUpdate(mac, item.bytes)
        /\ raw_body' = raw_body \o item.bytes
        /\ crypto' = [crypto EXCEPT !.macUpdates = @ + 1]
        /\ pos' = pos + 1
        /\ UNCHANGED <<pc, outcome>>
  /\ UNCHANGED <<config, req, run, expected, public_key, prev, hq, others>>
\* One turn of the loop over body_stream.next().await: a chunk goes to the MAC and
\* to the buffer, a read error ends the call.
HmacReadChunk ==
  /\ pc = "read" /\ pos <= Len(BodyStream)
  /\ LET item == BodyStream[pos]
     IN IF item.ok
        THEN /\ mac' = MacUpdate(mac, item.bytes)
             /\ raw_body' = raw_body \o item.bytes
             /\ crypto' = [crypto EXCEPT !.macUpdates = @ + 1]
             /\ pos' = pos + 1
             /\ UNCHANGED <<pc, outcome>>
        ELSE /\ Return(Error("BadRequest", "Read", "read error", <<>>))
             /\ pos' = pos + 1
             /\ UNCHANGED <<mac, raw_body, crypto>>
  /\ UNCHANGED <<config, req, run, expected, public_key, prev, hq, others>>

\* A comparison that only looks at the first expected signature.
FirstCtEq(body_sig, signatures) ==
  signatures # <<>> /\ CtEq(body_sig, Head(signatures))
\* A comparison that asks every expected signature to match.
AllCtEq(body_sig, signatures) ==
  \A i \in 1..Len(signatures) : CtEq(body_sig, signatures[i])
\* The digest against every expected signature, in order: the first match succeeds.
RECURSIVE AnyCtEq(_, _)
AnyCtEq(body_sig, signatures) ==
  IF signatures = <<>> THEN FALSE
  ELSE IF CtEq(body_sig, Head(signatures)) THEN TRUE
  ELSE AnyCtEq(body_sig, Tail(signatures))
\* A failure that reports the candidates the digest was compared with.
HmacResultDetailed(body_sig, signatures, body) ==
  IF AnyCtEq(body_sig, signatures) THEN Success(body)
  ELSE Error("Unauthorized", "Signature", "HMAC didn't match any provided signature",
             IF signatures = <<>> THEN <<>> ELSE HexEncode(Head(signatures)))
HmacResult(body_sig, signatures, body) ==
  IF AnyCtEq(body_sig, signatures) THEN Success(body)
  ELSE Error("Unauthorized", "Signature", "HMAC didn't match any provided signature", <<>>)

\* The stream has ended: finalize the MAC and compare.
HmacCompare ==
  /\ pc = "read" /\ pos > Len(BodyStream)
  /\ Return(HmacResult(MacFinalize(mac), expected, raw_body))
  /\ crypto' = [crypto EXCEPT !.compared = TRUE, !.bodyRead = TRUE,
                              !.message = Some(mac.data)]
  /\ UNCHANGED <<config, req, run, expected, mac, public_key, raw_body, pos, prev, hq, others>>

\* ----------------------------------------------- WebhookPublicKey verifier
\* let expected_signature = try_outcome!(self.expected_signature(req));
PkExpectedSignature ==
  /\ pc = "start" /\ req.provider \in PublicKeyProviders
  /\ LET r == ExpectedSignature(req.provider, req.headers)
     IN IF r.ok THEN expected' = <<r.val>> /\ pc' = "public_key" /\ outcome' = outcome
        ELSE Return(r.err) /\ expected' = expected
  /\ UNCHANGED <<config, req, run, mac, public_key, raw_body, pos, prev, crypto, hq, others>>

\* let public_key = try_outcome!(self.public_key(req).await);
\* let mut raw_body = Vec::with_capacity(body_size(req.headers()).unwrap_or(512));
PkPublicKey ==
  /\ pc = "public_key"
  /\ public_key' = Some(config.webhook[GuardKey].key)
  /\ LET buf == VecWithCapacity(body_size(req.headers))
     IN \E o \in buf.outcomes :
          /\ pc' = (IF o = "vec" THEN "read_to_end" ELSE o)
          /\ raw_body' = (IF o = "vec" THEN <<>> ELSE raw_body)
          /\ crypto' = [crypto EXCEPT !.keyObtained = TRUE,
                                      !.capacity = IF o = "vec" THEN Some(buf.capacity) ELSE @]
  /\ UNCHANGED <<config, req, run, expected, mac, pos, outcome, prev, hq, others>>

\* body.read_to_end(&mut raw_body).await, one read at a time.
PkReadChunk ==
  /\ pc = "read_to_end" /\ pos <= Len(BodyStream)
  /\ LET item == BodyStream[pos]
     IN IF item.ok
        THEN raw_body' = raw_body \o item.bytes /\ UNCHANGED <<pc, outcome>>
        ELSE Return(Error("BadRequest", "Read", "Body read error", <<>>))
             /\ raw_body' = raw_body
  /\ pos' = pos + 1
  /\ UNCHANGED <<config, req, run, expected, mac, public_key, crypto, prev, hq, others>>

PkResult(p, key, message, signature, body) ==
  IF AlgVerify(p, key, message, signature) THEN Success(body)
  ELSE Error("Unauthorized", "Signature", "Invalid signature", <<>>)

\* The body is complete: build the message, verify the signature over it.
PkVerify ==
  /\ pc = "read_to_end" /\ pos > Len(BodyStream)
  /\ LET m == MessageToVerify(req.provider, req.headers, raw_body, time_bounds)
     IN IF ~m.ok THEN Return(m.err) /\ crypto' = [crypto EXCEPT !.bodyRead = TRUE]
        ELSE /\ Return(PkResult(req.provider, public_key.val, m.val, expected[1], raw_body))
             /\ crypto' = [crypto EXCEPT !.verifyCalls = @ + 1, !.compared = TRUE,
                                         !.bodyRead = TRUE, !.message = Some(m.val)]
  /\ UNCHANGED <<config, req, run, expected, mac, public_key, raw_body, pos, prev, hq, others>>

\* ---------------------------------------------------------------- replay
\* The same request is presented a second time to the same configuration.
VerifyAgain ==
  /\ pc = "done" /\ run = 1
  /\ run' = 2
  /\ prev' = outcome
  /\ pc' = "start"
  /\ expected' = <<>>
  /\ mac' = UnkeyedMac
  /\ public_key' = None
  /\ raw_body' = <<>>
  /\ pos' = 1
  /\ outcome' = Pending
  /\ crypto' = NoCrypto
  /\ UNCHANGED <<config, req, hq, others>>

Next ==
  \/ HmacExpectedSignatures
  \/ HmacInit
  \/ HmacBodyPrefix
  \/ HmacReadChunk
  \/ HmacCompare
  \/ PkExpectedSignature
  \/ PkPublicKey
  \/ PkReadChunk
  \/ PkVerify
  \/ VerifyAgain

Spec == Init /\ [][Next]_vars

\* ------------------------------------------------- get_header on its own
\* Webhook::get_header for header maps, names and prefixes of every shape: names
\* in either case, a header sent more than once, values with the prefix absent,
\* present once and present twice.
MaxHeaders == 2

QueryNames == {<<"X", "-", "A">>, <<"x", "-", "a">>, <<"X", "-", "B">>}
QueryValues ==
  {<<>>, <<"a", "b">>, <<"v", "0", "=">>, <<"v", "0", "=", "a", "b">>,
   <<"v", "0", "=", "v", "0", "=", "a", "b">>}
QueryHeaders == SeqsUpTo([name : QueryNames, value : QueryValues], MaxHeaders)
QueryPrefixes == {None, Some(<<"v", "0", "=">>)}
Queries ==
  [headers : QueryHeaders, name : {<<"X", "-", "A">>, <<"x", "-", "a">>},
   prefix : QueryPrefixes, asked : {FALSE}, result : {Err(Pending)}]

InitHeader ==
  /\ config = Config0
  /\ req = Request("GitHub", [sigHeader |-> "absent", sig |-> <<>>, ts |-> "absent",
                              id |-> "absent"], <<>>, U32Of(1000))
  /\ pc = "header"
  /\ run = 1
  /\ expected = <<>>
  /\ mac = UnkeyedMac
  /\ public_key = None
  /\ raw_body = <<>>
  /\ pos = 1
  /\ outcome = Pending
  /\ prev = Pending
  /\ crypto = NoCrypto
  /\ hq \in Queries
  /\ others = NoOthers

\* self.get_header(req, name, prefix)
GetHeaderCall ==
  /\ pc = "header" /\ ~hq.asked
  /\ hq' = [hq EXCEPT !.asked = TRUE, !.result = get_header(hq.headers, hq.name, hq.prefix)]
  /\ UNCHANGED <<config, req, pc, run, expected, mac, public_key, raw_body, pos, outcome,
                 prev, crypto, others>>

NextHeader == GetHeaderCall

SpecHeader == InitHeader /\ [][NextHeader]_vars

\* ------------------------------------------------------------- properties
\* What the sender of the request did, read off its recipe.
Done == pc = "done"
CleanRead == ~StreamHasError(req.stream)
CandidatesDecodable ==
  /\ req.recipe.sigHeader = "present"
  /\ \A i \in 1..Len(req.recipe.sig) : req.recipe.sig[i] # "junk"
FreshAndIdentified ==
  /\ HasTimestamp(req.provider) => req.recipe.ts = "fresh"
  /\ HasId(req.provider) => req.recipe.id = "present"
GoodCount == Cardinality({i \in 1..Len(req.recipe.sig) : req.recipe.sig[i] = "good"})
Failed(kind) ==
  outcome.tag = "Error" /\ outcome.kind = kind /\ ~outcome.hasData /\ outcome.data = <<>>
Succeeded ==
  outcome.tag = "Success" /\ outcome.hasData /\ outcome.data = ChunkBytes(req.stream)

\* The providers whose hooks, as the verifier calls them, check a timestamp.
ChecksTimestamp(p) == p \in {"Slack", "Stripe", "Svix", "Standard", "Discord"}
\* A candidate of the request matches the digest or signature over the message
\* the verifier assembles from the provider's hooks and the whole body.
VerifiedMessageMatches ==
  LET p == req.provider
      body == ChunkBytes(req.stream)
  IN IF p \in HmacProviders
     THEN LET sigs == ExpectedSignatures(p, req.headers)
              pre == BodyPrefix(p, req.headers, time_bounds)
          IN /\ sigs.ok /\ pre.ok
             /\ \E i \in 1..Len(sigs.val) :
                  sigs.val[i] = HmacSha256(KeyFor(p, GuardKey[2]),
                                  (IF pre.val.some THEN pre.val.val ELSE <<>>) \o body)
     ELSE LET sig == ExpectedSignature(p, req.headers)
              m == MessageToVerify(p, req.headers, body, time_bounds)
          IN sig.ok /\ m.ok /\ sig.val = PkSign(AlgOf(p), KeyFor(p, GuardKey[2]), m.val)

\* C1: the verifier returns Success only if the body stream was read to its end
\* without error, every timestamp check the provider performs passed, and the
\* digest or signature over the provider's message matches a member of the
\* expected set; every other call ends in a tagged WebhookError, and no body
\* bytes are handed over except by a Success.
C1_SuccessOnlyWhenVerified ==
  /\ outcome.hasData => (Done /\ outcome.tag = "Success")
  /\ Done =>
       \/ /\ Succeeded
          /\ CleanRead /\ pos = Len(req.stream) + 1 /\ raw_body = ChunkBytes(req.stream)
          /\ ChecksTimestamp(req.provider) => req.recipe.ts = "fresh"
          /\ VerifiedMessageMatches
       \/ \E kind \in ErrorKinds : Failed(kind)
C1_Witness ==
  /\ Done /\ Succeeded /\ req.provider = "Stripe" /\ run = 1
  /\ Len(req.stream) = MaxChunks /\ req.recipe.sig = <<"good">>

\* A request as an honest sender writes it: one signature, made with the right
\* key over the message the provider declares, a fresh timestamp, a body that
\* arrives whole.
HonestRequest ==
  /\ req.recipe.sigHeader = "present" /\ req.recipe.sig = <<"good">>
  /\ FreshAndIdentified /\ CleanRead

\* C2: for every provider, a request signed with the right secret over the
\* provider's declared message verifies, and the bytes returned are the chunks of
\* the body in order.
C2_RoundTrip == (Done /\ HonestRequest) => Succeeded

\* A request whose every candidate signature is a valid one with one bit flipped,
\* and which is otherwise as the verifier accepts it.
FlippedRequest ==
  /\ req.recipe.sigHeader = "present" /\ req.recipe.sig # <<>>
  /\ \A i \in 1..Len(req.recipe.sig) : req.recipe.sig[i] \in {"flip", "bodyflip"}
  /\ FreshAndIdentified /\ CleanRead

\* C3: for every provider, a request that would otherwise verify but whose
\* claimed signature has a single bit flipped fails with a Signature error.
C3_BitFlipRejected == (Done /\ FlippedRequest) => Failed("Signature")
C3_Witness ==
  /\ Done /\ FlippedRequest /\ Failed("Signature")
  /\ req.provider = "Generic" /\ req.recipe.sig = <<"bodyflip">> /\ Len(req.stream) = MaxChunks

\* A multi-signature header whose candidates all decode, on a request that is
\* otherwise in order.
MultiSigCase ==
  /\ req.provider \in MultiSigProviders
  /\ CandidatesDecodable /\ FreshAndIdentified /\ CleanRead

\* C4: for Stripe, Svix and Standard Webhooks, a header of N candidates of which
\* exactly one matches verifies wherever the matching one stands, and a header
\* of which none matches fails.
C4_AnyPositionMatches ==
  (Done /\ MultiSigCase) =>
     /\ GoodCount = 1 => Succeeded
     /\ GoodCount = 0 => Failed("Signature")
C4_Witness ==
  /\ Done /\ MultiSigCase /\ Succeeded
  /\ Len(req.recipe.sig) = MaxSigs /\ req.recipe.sig[MaxSigs] = "good" /\ GoodCount = 1

\* The providers that authenticate a timestamp with the body.
TimestampProviders == {"Slack", "Stripe", "Svix", "Standard", "Discord", "SendGrid"}
\* A request with a timestamp outside the window, and nothing else for the
\* verifier to object to before it gets to the signature.
OutOfWindowRequest ==
  /\ req.provider \in TimestampProviders
  /\ req.recipe.ts \in {"stale", "future"}
  /\ CandidatesDecodable /\ req.recipe.sig # <<>>
  /\ HasId(req.provider) => req.recipe.id = "present"
  /\ CleanRead

\* C5: for every provider that authenticates a timestamp, a request whose
\* timestamp is outside the tolerance window fails with a Timestamp error, whether
\* or not its signature is valid.
C5_OutOfWindowRejected == (Done /\ OutOfWindowRequest) => Failed("Timestamp")

\* The built-in providers, with the headers each requires.
BuiltInProviders == Providers \ {"Generic"}
LacksRequiredHeader ==
  \/ req.recipe.sigHeader = "absent"
  \/ HasTimestamp(req.provider) /\ req.provider # "Stripe" /\ req.recipe.ts = "absent"
  \/ HasId(req.provider) /\ req.recipe.id = "absent"
\* A request that lacks a required header and is in order in what it does carry.
MissingHeaderRequest ==
  /\ req.provider \in BuiltInProviders
  /\ LacksRequiredHeader
  /\ req.recipe.sigHeader = "absent" \/ CandidatesDecodable
  /\ req.recipe.ts \in {"absent", "fresh"}
  /\ CleanRead
NoCryptoWork ==
  /\ ~crypto.macKeyed /\ crypto.macUpdates = 0
  /\ ~crypto.keyObtained /\ crypto.verifyCalls = 0

\* C6: for every provider, a request that lacks a header the provider requires
\* fails with a MissingHeader error, and no cryptographic work has been attempted:
\* no MAC keyed or updated, no public key obtained, no verify call.
C6_MissingHeaderBeforeCrypto ==
  (Done /\ MissingHeaderRequest) => (Failed("MissingHeader") /\ NoCryptoWork)

\* The body stream has yielded its read error to the verifier.
ReadErrorMet == \E i \in 1..(pos - 1) : i <= Len(req.stream) /\ ~req.stream[i].ok

\* C7: once the body stream yields a read error, at whichever chunk, the call
\* fails with a Read error; it never succeeds, and the partial bytes are neither
\* returned nor compared against a signature.
C7_ReadErrorFails ==
  /\ ReadErrorMet => (Done /\ Failed("Read") /\ ~crypto.compared /\ crypto.verifyCalls = 0)
  /\ (Done /\ StreamHasError(req.stream)) => outcome.tag = "Error"
C7_Witness ==
  /\ Done /\ ReadErrorMet /\ Failed("Read")
  /\ req.provider = "Slack" /\ raw_body # <<>> /\ pos = MaxChunks + 1
  /\ req.recipe.sig = <<"good">>

\* C8: the status of a failure is Unauthorized exactly when the error kind is
\* Signature, and BadRequest exactly when it is MissingHeader, InvalidHeader,
\* Timestamp or Read.
C8_StatusOfKind ==
  (Done /\ outcome.tag = "Error") =>
     /\ outcome.kind = "Signature" <=> outcome.status = "Unauthorized"
     /\ outcome.kind \in {"MissingHeader", "InvalidHeader", "Timestamp", "Read"}
          <=> outcome.status = "BadRequest"

\* ------------------------------------------------------ a second call
\* The same request comes a second time, with its body from the start.  The
\* locals of the first call are gone; in their place the second call finds
\* whatever the first one left (its expected signatures, its MAC with all that
\* was fed into it, its key, its buffer) until it makes its own.
CallAgain ==
  /\ pc = "done" /\ run = 1
  /\ run' = 2
  /\ prev' = outcome
  /\ pc' = "start"
  /\ pos' = 1
  /\ outcome' = Pending
  /\ crypto' = NoCrypto
  /\ UNCHANGED <<config, req, expected, mac, public_key, raw_body, hq, others>>

NextAgain ==
  \/ HmacExpectedSignatures
  \/ HmacInit
  \/ HmacBodyPrefix
  \/ HmacReadChunk
  \/ HmacCompare
  \/ PkExpectedSignature
  \/ PkPublicKey
  \/ PkReadChunk
  \/ PkVerify
  \/ CallAgain

SpecAgain == Init /\ [][NextAgain]_vars

\* C9: verifying the same request twice against the same configuration gives the
\* same outcome both times, and the configuration is never changed.
C9_Idempotent ==
  /\ config = Config0
  /\ (run = 2 /\ Done) => outcome = prev
C9_Witness ==
  /\ run = 2 /\ Done /\ Succeeded /\ outcome = prev
  /\ req.provider = "Svix" /\ Len(req.stream) = MaxChunks

\* Two characters that are the same up to the case of a letter.
SameUncased(x, y) ==
  x = y \/ \E i \in 1..Len(UpperAZ) : {x, y} = {UpperAZ[i], LowerAZ[i]}
NameMatches(n, name) ==
  Len(n) = Len(name) /\ \A i \in 1..Len(n) : SameUncased(n[i], name[i])
\* The positions of the headers of the query that bear the name asked for.
Matching == {i \in 1..Len(hq.headers) : NameMatches(hq.headers[i].name, hq.name)}
FirstValue == hq.headers[CHOOSE i \in Matching : \A j \in Matching : i <= j].value

\* C10: get_header looks the name up without regard to case and takes the first
\* value.  No such header: MissingHeader.  A prefix is asked for and the value
\* does not start with it: InvalidHeader.  Otherwise the value, with the prefix
\* taken off its front once.
C10_GetHeader ==
  hq.asked =>
    IF Matching = {}
    THEN ~hq.result.ok /\ hq.result.err.tag = "Error"
         /\ hq.result.err.kind = "MissingHeader" /\ hq.result.err.status = "BadRequest"
    ELSE IF hq.prefix.some /\ ~StartsWith(FirstValue, hq.prefix.val)
    THEN ~hq.result.ok /\ hq.result.err.tag = "Error"
         /\ hq.result.err.kind = "InvalidHeader" /\ hq.result.err.status = "BadRequest"
    ELSE /\ hq.result.ok
         /\ (IF hq.prefix.some THEN hq.prefix.val ELSE <<>>) \o hq.result.val = FirstValue
C10_Witness ==
  /\ hq.asked /\ hq.result.ok /\ hq.prefix.some
  /\ Cardinality(Matching) = MaxHeaders
  /\ hq.headers[1].name # hq.name
  /\ hq.headers[1].value = hq.prefix.val \o hq.prefix.val \o <<"a", "b">>
  /\ hq.headers[MaxHeaders].value # hq.headers[1].value
  /\ hq.result.val = hq.prefix.val \o <<"a", "b">>

\* ------------------------------------------ validate_timestamp on its own
\* Webhook::validate_timestamp for timestamp strings of every shape (empty, signed,
\* non-numeric, padded, beyond u32) and bounds in either order.
TimestampTexts ==
  {<<>>, <<"0">>, <<"6", "9", "9">>, <<"7", "0", "0">>, <<"7", "0", "1">>,
   <<"1", "0", "1", "5">>, <<"1", "0", "1", "6">>, <<"0", "7", "0", "0">>,
   <<"+", "7", "0", "0">>, <<"-", "7", "0", "0">>, <<"-", "0">>, <<"7", "0", "0", "x">>,
   <<"a", "b", "c">>, <<" ", "7", "0", "0">>, <<"7", ".", "0">>, <<"+">>,
   <<"4", "2", "9", "4", "9", "6", "7", "2", "9", "5">>,
   <<"4", "2", "9", "4", "9", "6", "7", "2", "9", "6">>,
   <<"9", "9", "9", "9", "9", "9", "9", "9", "9", "9", "9">>}
BoundValues == {U32Zero, U32Of(700), U32Of(1015), U32Max}
TimestampQueries ==
  [timestamp : TimestampTexts, bounds : BoundValues \X BoundValues, asked : {FALSE},
   result : {Err(Pending)}]

InitTimestamp ==
  /\ config = Config0
  /\ req = Request("GitHub", [sigHeader |-> "absent", sig |-> <<>>, ts |-> "absent",
                              id |-> "absent"], <<>>, U32Of(1000))
  /\ pc = "timestamp"
  /\ run = 1
  /\ expected = <<>>
  /\ mac = UnkeyedMac
  /\ public_key = None
  /\ raw_body = <<>>
  /\ pos = 1
  /\ outcome = Pending
  /\ prev = Pending
  /\ crypto = NoCrypto
  /\ hq \in TimestampQueries
  /\ others = NoOthers

\* self.validate_timestamp(timestamp, time_bounds)
ValidateTimestampCall ==
  /\ pc = "timestamp" /\ ~hq.asked
  /\ hq' = [hq EXCEPT !.asked = TRUE, !.result = validate_timestamp(hq.timestamp, hq.bounds)]
  /\ UNCHANGED <<config, req, pc, run, expected, mac, public_key, raw_body, pos, outcome,
                 prev, crypto, others>>

NextTimestamp == ValidateTimestampCall

SpecTimestamp == InitTimestamp /\ [][NextTimestamp]_vars

\* A string of decimal digits without its leading zeros ("0" for zero).
RECURSIVE Canonical(_)
Canonical(d) == IF Len(d) > 1 /\ d[1] = "0" THEN Canonical(Tail(d)) ELSE d
\* The order of two canonical decimal numerals: by length, then digit by digit.
RECURSIVE NumeralLe(_, _)
NumeralLe(a, b) ==
  IF Len(a) # Len(b) THEN Len(a) < Len(b)
  ELSE IF a = <<>> THEN TRUE
  ELSE IF a[1] # b[1] THEN IndexOf(Digits, a[1]) < IndexOf(Digits, b[1])
  ELSE NumeralLe(Tail(a), Tail(b))
\* The text is an unsigned decimal numeral (an optional '+', then digits only).
Unsigned(text) == IF text # <<>> /\ text[1] = "+" THEN Tail(text) ELSE text
IsNumeral(text) ==
  Unsigned(text) # <<>> /\ \A i \in 1..Len(Unsigned(text)) : Unsigned(text)[i] \in Range(Digits)
WithinBounds(text, bounds) ==
  /\ IsNumeral(text)
  /\ NumeralLe(ToDec(bounds[1]), Canonical(Unsigned(text)))
  /\ NumeralLe(Canonical(Unsigned(text)), ToDec(bounds[2]))

\* C11: validate_timestamp succeeds exactly when the string is an unsigned
\* integer t with min <= t <= max, both ends included, and fails with a Timestamp
\* error otherwise: also for an empty, a negative or a non-numeric string.
C11_ValidateTimestamp ==
  hq.asked =>
    IF WithinBounds(hq.timestamp, hq.bounds)
    THEN hq.result.ok /\ ToDec(hq.result.val) = Canonical(Unsigned(hq.timestamp))
    ELSE ~hq.result.ok /\ hq.result.err.tag = "Error" /\ hq.result.err.kind = "Timestamp"
C11_Witness ==
  /\ hq.asked /\ hq.result.ok
  /\ hq.timestamp = ToDec(hq.bounds[2]) /\ hq.bounds[1] # hq.bounds[2]

\* ------------------------------------------------ time bounds on their own
\* The bounds of a request at several times and tolerances (the defaults, the
\* "ignore timestamp" pair of the tests, tolerances around the time itself), and
\* the validation of a timestamp against them.
IGNORE_TIMESTAMP == U32Max
NowSamples == {U32Zero, U32Of(1000), U32Of(1760414077)}
ToleranceSamples ==
  {Config0.timestamp_tolerance, <<IGNORE_TIMESTAMP, U32Zero>>, <<U32Of(1001), U32Zero>>,
   <<U32Of(1000), U32Of(15)>>, <<U32Zero, U32Zero>>}
TimestampSamples ==
  {U32Zero, U32Of(1), U32Of(699), U32Of(700), U32Of(1000), U32Of(1001), U32Of(1015),
   U32Of(1016), U32Of(1531420618), U32Of(1760414077), U32Of(1760414078), U32Max}
BoundsQueries ==
  [now : NowSamples, tolerance : ToleranceSamples, timestamp : TimestampSamples,
   asked : {FALSE}, bounds : {<<U32Zero, U32Zero>>}, result : {Err(Pending)}]

InitBounds ==
  /\ config = Config0
  /\ req = Request("GitHub", [sigHeader |-> "absent", sig |-> <<>>, ts |-> "absent",
                              id |-> "absent"], <<>>, U32Of(1000))
  /\ pc = "bounds"
  /\ run = 1
  /\ expected = <<>>
  /\ mac = UnkeyedMac
  /\ public_key = None
  /\ raw_body = <<>>
  /\ pos = 1
  /\ outcome = Pending
  /\ prev = Pending
  /\ crypto = NoCrypto
  /\ hq \in BoundsQueries
  /\ others = NoOthers

\* The guard derives the bounds of the request, and a provider validates the
\* timestamp of the request against them.
TimeBoundsCall ==
  /\ pc = "bounds" /\ ~hq.asked
  /\ LET tb == TimeBounds(hq.now, hq.tolerance)
     IN hq' = [hq EXCEPT !.asked = TRUE, !.bounds = tb,
                         !.result = validate_timestamp(ToDec(hq.timestamp), tb)]
  /\ UNCHANGED <<config, req, pc, run, expected, mac, public_key, raw_body, pos, outcome,
                 prev, crypto, others>>

NextBounds == TimeBoundsCall

SpecBounds == InitBounds /\ [][NextBounds]_vars

\* a <= b, by their decimal numerals.
ValueLe(a, b) == NumeralLe(ToDec(a), ToDec(b))

\* C12: the bounds of a request are (now - past, now + future) over 32-bit unsigned
\* seconds, with the defaults past = 300 and future = 15; when past > now the lower
\* bound is 0, not a wrapped value, so that with past = u32::MAX and future = 0
\* every timestamp in [0, now] is accepted.
C12_TimeBounds ==
  /\ ToDec(config.timestamp_tolerance[1]) = <<"3", "0", "0">>
  /\ ToDec(config.timestamp_tolerance[2]) = <<"1", "5">>
  /\ hq.asked =>
       /\ IF ValueLe(hq.tolerance[1], hq.now)
          THEN U32SaturatingAdd(hq.bounds[1], hq.tolerance[1]) = hq.now
          ELSE hq.bounds[1] = U32Zero
       /\ U32WrappingSub(hq.bounds[2], hq.tolerance[2]) = hq.now
       /\ ValueLe(hq.now, hq.bounds[2])
       /\ hq.result.ok <=> (ValueLe(hq.bounds[1], hq.timestamp)
                             /\ ValueLe(hq.timestamp, hq.bounds[2]))
       /\ (hq.tolerance = <<IGNORE_TIMESTAMP, U32Zero>> /\ ValueLe(hq.timestamp, hq.now))
            => hq.result.ok
C12_Witness ==
  /\ hq.asked /\ hq.tolerance = <<IGNORE_TIMESTAMP, U32Zero>>
  /\ hq.now = U32Of(1760414077) /\ hq.timestamp = U32Of(1531420618)
  /\ hq.bounds = <<U32Zero, hq.now>> /\ hq.result.ok

\* A multi-signature header that lists a candidate which does not decode.
UndecodableCandidate ==
  /\ req.provider \in MultiSigProviders
  /\ req.recipe.sigHeader = "present"
  /\ \E i \in 1..Len(req.recipe.sig) : req.recipe.sig[i] = "junk"

\* C13: for Stripe, Svix and Standard Webhooks, a listed candidate that does not
\* decode fails the request with InvalidHeader: it is not skipped, even when
\* another candidate of the same header is the correct signature.
C13_UndecodableCandidateRejected ==
  (Done /\ UndecodableCandidate) => (Failed("InvalidHeader") /\ ~crypto.compared)
C13_Witness ==
  /\ Done /\ UndecodableCandidate /\ Failed("InvalidHeader")
  /\ GoodCount = 1 /\ req.recipe.sig[1] = "good" /\ FreshAndIdentified /\ CleanRead

\* The prefix and the suffix the provider of the request supplies, if any.
SuppliedPrefix == BodyPrefix(req.provider, req.headers, time_bounds)
SuppliedSuffix ==
  IF req.provider = "Generic" THEN GenericBodySuffix(req.headers, time_bounds) ELSE Ok(None)
BytesOf(hook) == IF hook.val.some THEN hook.val.val ELSE <<>>

\* C14: the bytes the HMAC verifier authenticates are prefix || body || suffix: the
\* prefix goes into the MAC before the body, the chunks in their order, and the
\* suffix of a provider that supplies one after the last chunk and before the
\* digest is compared.
C14_PrefixBodySuffix ==
  (Done /\ req.provider \in HmacProviders /\ crypto.compared) =>
     /\ SuppliedPrefix.ok /\ SuppliedSuffix.ok
     /\ mac.data = BytesOf(SuppliedPrefix) \o ChunkBytes(req.stream) \o BytesOf(SuppliedSuffix)

\* The HMAC verifier compared the digest with the candidates and none matched.
NoCandidateMatched ==
  Done /\ req.provider \in HmacProviders /\ crypto.compared /\ outcome.tag = "Error"

\* C20: when no candidate matches, the failure is one and the same Signature error
\* (kind, detail, status) however many candidates were listed, in whatever order,
\* and whichever of them differed from the digest.
C20_SameFailure ==
  NoCandidateMatched =>
    outcome = Error("Unauthorized", "Signature", "HMAC didn't match any provided signature",
                    <<>>)
C20_Witness ==
  /\ NoCandidateMatched /\ Failed("Signature")
  /\ req.provider = "Stripe" /\ Len(req.recipe.sig) = MaxSigs
  /\ \A i \in 1..MaxSigs : req.recipe.sig[i] = "flip"

\* ------------------------------------------- the declared length of a body
\* A request is verified without a Content-Length header, and then once more
\* with one: empty or not a number, below, at and above the length of the body,
\* a length the memory of the machine may or may not hold, the size of the
\* address space, and the largest values an isize and a usize hold and one beyond.
LengthProviders == {"GitHub", "Slack", "Discord"}
LengthRequests ==
  UNION {{Request(p, r, st, now) : r \in Recipes(p), st \in Streams, now \in NowValues} :
           p \in LengthProviders}
ContentLengths(body) ==
  {<<>>, <<"1", "x">>, <<"-", "1">>, <<"+", "1">>, <<"0">>,
   ToDec(U32Of(Len(body))), ToDec(U32Of(Len(body) + 1)), <<"0", "9", "9">>,
   <<"1","0","9","9","5","1","1","6","2","7","7","7","6">>, ADDRESS_SPACE, ISIZE_MAX,
   <<"9","2","2","3","3","7","2","0","3","6","8","5","4","7","7","5","8","0","8">>,
   USIZE_MAX,
   <<"1","8","4","4","6","7","4","4","0","7","3","7","0","9","5","5","1","6","1","6">>}
  \cup (IF body = <<>> THEN {} ELSE {ToDec(U32Of(Len(body) - 1))})

InitLength ==
  /\ config = Config0
  /\ req \in LengthRequests
  /\ pc = "start"
  /\ run = 1
  /\ expected = <<>>
  /\ mac = UnkeyedMac
  /\ public_key = None
  /\ raw_body = <<>>
  /\ pos = 1
  /\ outcome = Pending
  /\ prev = Pending
  /\ crypto = NoCrypto
  /\ hq = NoQuery
  /\ others = NoOthers

\* The same request comes again, now with a Content-Length header.
VerifyWithLength ==
  /\ pc = "done" /\ run = 1
  /\ \E len \in ContentLengths(ChunkBytes(req.stream)) :
       req' = [req EXCEPT !.headers = <<Header(H_CONTENT_LENGTH, len)>> \o @]
  /\ run' = 2
  /\ prev' = outcome
  /\ pc' = "start"
  /\ expected' = <<>>
  /\ mac' = UnkeyedMac
  /\ public_key' = None
  /\ raw_body' = <<>>
  /\ pos' = 1
  /\ outcome' = Pending
  /\ crypto' = NoCrypto
  /\ UNCHANGED <<config, hq, others>>

NextLength ==
  \/ HmacExpectedSignatures
  \/ HmacInit
  \/ HmacBodyPrefix
  \/ HmacReadChunk
  \/ HmacCompare
  \/ PkExpectedSignature
  \/ PkPublicKey
  \/ PkReadChunk
  \/ PkVerify
  \/ VerifyWithLength

SpecLength == InitLength /\ [][NextLength]_vars

\* The verification has ended, with an outcome or without one.
Ended == pc \in {"done", "panicked", "aborted"}
DeclaredLength == GetOne(req.headers, H_CONTENT_LENGTH)
\* The call was not ended by the allocation of its buffer.
FitsBuffer == pc \notin {"panicked", "aborted"}

\* C19: the declared body length only pre-sizes the buffer: a request verified
\* with a Content-Length header, whatever its value, ends with the outcome and
\* the bytes of the same request verified without the header.
C19_LengthHintOnly ==
  (run = 2 /\ DeclaredLength.some /\ Ended) => (pc = "done" /\ outcome = prev)
\* The same for the calls that get their buffer.
LengthHintOnlyWhenFits ==
  (run = 2 /\ DeclaredLength.some /\ Ended /\ FitsBuffer) => (pc = "done" /\ outcome = prev)

\* ------------------------------------------------------------- the guards
\* The data guards: look the configuration up in Rocket's state, verify the
\* request with it, and (WebhookPayload) deserialize the verified body.
\* The verification is that of the verifier traits (validate_with_hmac and the
\* public-key verifier), whose errors are WebhookError values, as the providers
\* of built_in/ and the tests expect; from_data of guard.rs, which verifies one
\* HMAC signature by itself and answers every failure with 400 and a string,
\* gives the steps around it: the lookup, the limit on the body, the parse.
GuardProviders == {"Slack", "Discord"}
\* Every provider registered twice, once under each marker, and not without one.
ConfigAccounts ==
  [Config0 EXCEPT !.webhook =
     [k \in {<<p, m>> : p \in Providers, m \in Markers} |-> [key |-> KeyFor(k[1], k[2])]]]
GuardConfigs == {Config0, ConfigAccounts}

\* Bodies for a payload type of bool: "true", its halves and a blank.
GuardChunks == {<<116, 114, 117, 101>>, <<116, 114>>, <<117, 101>>, <<32>>}
GuardStreams ==
  LET clean == SeqsUpTo([ok : {TRUE}, bytes : GuardChunks], MaxChunks)
  IN clean \cup {Append(st, ReadError) : st \in {c \in clean : Len(c) < MaxChunks}}
GuardRecipes ==
  {[sigHeader |-> "present", sig |-> <<k>>, ts |-> "fresh", id |-> "absent"] :
     k \in {"good", "flip"}}
  \cup {[sigHeader |-> "absent", sig |-> <<>>, ts |-> "fresh", id |-> "absent"]}
GuardRequests ==
  UNION {{GuardRequest(p, m, signer, g, r, st, now) :
            m \in {p} \cup Markers, signer \in {p} \cup Markers, g \in {"raw", "json"},
            r \in GuardRecipes, st \in GuardStreams, now \in NowValues} :
           p \in GuardProviders}

\* serde_json::from_slice::<bool>: blanks, `true` or `false`, blanks, the end.
JsonBlank(b) == b \in {32, 10, 13, 9}
RECURSIVE SkipBlanks(_)
SkipBlanks(bytes) ==
  IF bytes # <<>> /\ JsonBlank(Head(bytes)) THEN SkipBlanks(Tail(bytes)) ELSE bytes
JsonFromSlice(bytes) ==
  LET rest == SkipBlanks(bytes)
      true == <<116, 114, 117, 101>>
      false == <<102, 97, 108, 115, 101>>
  IN IF StartsWith(rest, true) /\ SkipBlanks(SubSeq(rest, 5, Len(rest))) = <<>>
     THEN Ok(<<TRUE>>)
     ELSE IF StartsWith(rest, false) /\ SkipBlanks(SubSeq(rest, 6, Len(rest))) = <<>>
     THEN Ok(<<FALSE>>)
     ELSE Err(Error("BadRequest", "Deserialize", "Deserialize error", <<>>))

InitGuard ==
  /\ config \in GuardConfigs
  /\ req \in GuardRequests
  /\ pc = "guard"
  /\ run = 1
  /\ expected = <<>>
  /\ mac = UnkeyedMac
  /\ public_key = None
  /\ raw_body = <<>>
  /\ pos = 1
  /\ outcome = Pending
  /\ prev = Pending
  /\ crypto = NoCrypto
  /\ hq = NoQuery
  /\ others = NoOthers

\* req.rocket().state::<RocketWebhook<W>>().expect("the webhook was not found in
\* Rocket's state"): without the state the handler panics.
GuardLookup ==
  /\ pc = "guard"
  /\ pc' = (IF Attached THEN "start" ELSE "panicked")
  /\ UNCHANGED <<config, req, run, expected, mac, public_key, raw_body, pos, outcome, prev,
                 crypto, hq, others>>

\* match serde_json::from_slice(&raw_body) { Ok(data) => Success, Err(e) => Error }
GuardDeserialize ==
  /\ pc = "deserialize"
  /\ LET r == JsonFromSlice(raw_body)
     IN outcome' = (IF r.ok THEN Success(r.val) ELSE r.err)
  /\ pc' = "done"
  /\ crypto' = [crypto EXCEPT !.deserializeCalls = @ + 1]
  /\ UNCHANGED <<config, req, run, expected, mac, public_key, raw_body, pos, prev, hq, others>>

NextGuard ==
  \/ GuardLookup
  \/ HmacExpectedSignatures
  \/ HmacInit
  \/ HmacBodyPrefix
  \/ HmacReadChunk
  \/ HmacCompare
  \/ PkExpectedSignature
  \/ PkPublicKey
  \/ PkReadChunk
  \/ PkVerify
  \/ GuardDeserialize

SpecGuard == InitGuard /\ [][NextGuard]_vars

\* C17: a guard used for a provider that was never registered ends the request
\* with the error kind NotAttached and a 500-class status: the failed lookup is
\* an error value, and the handler does not panic.
C17_NotAttachedIsAnError ==
  (pc # "guard" /\ ~Attached) =>
    (pc = "done" /\ Failed("NotAttached") /\ outcome.status = "InternalServerError")

\* The sender signed with another secret than the guard's, or spoiled the signature.
WrongSignature ==
  /\ req.recipe.sigHeader = "present"
  /\ req.recipe.sig = <<"flip">> \/ req.signer # GuardKey[2]
ValidJson == JsonFromSlice(ChunkBytes(req.stream)).ok

\* C18: the deserializing guard parses the body only after the verification has
\* succeeded: the parser is reached only with a body that was read to its end
\* and whose signature matched, a request with a wrong signature fails with the
\* Signature error whether its body is valid JSON or not, and a Deserialize
\* error is only the answer to a verified body.
C18_DeserializeAfterVerification ==
  /\ (pc = "deserialize" \/ crypto.deserializeCalls > 0) =>
       /\ req.guard = "json" /\ crypto.compared /\ CleanRead /\ VerifiedMessageMatches
       /\ raw_body = ChunkBytes(req.stream)
  /\ (Done /\ req.guard = "json" /\ WrongSignature /\ CleanRead) =>
       (Failed("Signature") /\ crypto.deserializeCalls = 0)
  /\ (Done /\ outcome.tag = "Error" /\ outcome.kind = "Deserialize") =>
       (crypto.deserializeCalls = 1 /\ VerifiedMessageMatches /\ ~ValidJson)
  /\ (Done /\ req.guard = "json" /\ outcome.tag = "Success") =>
       (crypto.deserializeCalls = 1 /\ outcome.data = JsonFromSlice(ChunkBytes(req.stream)).val)
C18_Witness ==
  /\ Done /\ req.guard = "json" /\ WrongSignature /\ CleanRead /\ ValidJson
  /\ Failed("Signature")

\* The guard's verification accepted the request.
Accepted ==
  IF req.guard = "raw" THEN Succeeded ELSE crypto.deserializeCalls = 1
\* C15: with two configurations of one provider type registered under the
\* markers M1 and M2, the guard for a marker verifies with the secret registered
\* under that marker only: a request signed with that secret is accepted, one
\* signed with the other marker's secret fails with the Signature error.
C15_MarkerSelectsSecret ==
  (/\ Ended /\ config = ConfigAccounts
   /\ req.marker \in Markers /\ req.signer \in Markers
   /\ req.recipe.sig = <<"good">> /\ CleanRead) =>
    IF req.signer = req.marker THEN Accepted ELSE Failed("Signature")
\* What the guards do: they verify with the secret of the configuration
\* registered without a marker, whatever route the request comes to.
GuardUsesUnmarkedConfiguration ==
  (/\ Done /\ config = Config0 /\ req.recipe.sig = <<"good">> /\ CleanRead) =>
    IF req.signer = req.provider THEN Accepted ELSE Failed("Signature")

\* ------------------------------------------------- two requests at a time
\* Request A is verified alone, and then once more while request B is verified
\* against the same configuration: one of the two runs, the other is suspended
\* with everything its call owns, and they take turns at any step.
ConcurrentProviders == {"Slack", "Discord"}
ConcurrentRecipes ==
  {[sigHeader |-> "present", sig |-> <<k>>, ts |-> "fresh", id |-> "absent"] :
     k \in {"good", "flip"}}
ConcurrentRequests(p) ==
  {Request(p, r, st, now) : r \in ConcurrentRecipes, st \in Streams, now \in NowValues}
\* What a call that has not started yet owns.
FreshCall(id, request) ==
  [id |-> id, req |-> request, pc |-> "start", expected |-> <<>>, mac |-> UnkeyedMac,
   public_key |-> None, raw_body |-> <<>>, pos |-> 1, outcome |-> Pending,
   crypto |-> NoCrypto, mixed |-> FALSE]

InitConcurrent ==
  /\ config = Config0
  /\ \E p \in ConcurrentProviders :
       /\ req \in ConcurrentRequests(p)
       /\ others \in {FreshCall(2, b) : b \in ConcurrentRequests(p)}
  /\ pc = "start"
  /\ run = 1
  /\ expected = <<>>
  /\ mac = UnkeyedMac
  /\ public_key = None
  /\ raw_body = <<>>
  /\ pos = 1
  /\ outcome = Pending
  /\ prev = Pending
  /\ crypto = NoCrypto
  /\ hq = NoQuery

\* Both calls are in the middle of their bodies.
MidBody(position, request) == 1 < position /\ position <= Len(request.stream)
\* Two calls that share one MAC: the turn changes, the MAC stays.
SwitchSharedMac ==
  /\ run = 2 /\ others.pc # "done"
  /\ req' = others.req /\ pc' = others.pc /\ expected' = others.expected
  /\ public_key' = others.public_key /\ raw_body' = others.raw_body /\ pos' = others.pos
  /\ outcome' = others.outcome /\ crypto' = others.crypto
  /\ others' = [id |-> 3 - others.id, req |-> req, pc |-> pc, expected |-> expected,
                mac |-> mac, public_key |-> public_key, raw_body |-> raw_body, pos |-> pos,
                outcome |-> outcome, crypto |-> crypto,
                mixed |-> others.mixed \/ (MidBody(pos, req) /\ MidBody(others.pos, others.req))]
  /\ UNCHANGED <<config, run, prev, hq, mac>>
\* Two calls that fill one buffer: the turn changes, the buffer stays.
SwitchSharedBuffer ==
  /\ run = 2 /\ others.pc # "done"
  /\ req' = others.req /\ pc' = others.pc /\ expected' = others.expected
  /\ mac' = others.mac
  /\ public_key' = others.public_key /\ pos' = others.pos
  /\ outcome' = others.outcome /\ crypto' = others.crypto
  /\ others' = [id |-> 3 - others.id, req |-> req, pc |-> pc, expected |-> expected,
                mac |-> mac, public_key |-> public_key, raw_body |-> raw_body, pos |-> pos,
                outcome |-> outcome, crypto |-> crypto,
                mixed |-> others.mixed \/ (MidBody(pos, req) /\ MidBody(others.pos, others.req))]
  /\ UNCHANGED <<config, run, prev, hq, raw_body>>
\* The running call is suspended (at an await, or by the scheduler of another
\* thread) and the other call goes on where it stopped: each call keeps its own
\* expected signatures, MAC, key, buffer and position in its body.
Switch ==
  /\ run = 2 /\ others.pc # "done"
  /\ req' = others.req /\ pc' = others.pc /\ expected' = others.expected
  /\ mac' = others.mac
  /\ public_key' = others.public_key /\ raw_body' = others.raw_body /\ pos' = others.pos
  /\ outcome' = others.outcome /\ crypto' = others.crypto
  /\ others' = [id |-> 3 - others.id, req |-> req, pc |-> pc, expected |-> expected,
                mac |-> mac, public_key |-> public_key, raw_body |-> raw_body, pos |-> pos,
                outcome |-> outcome, crypto |-> crypto,
                mixed |-> others.mixed \/ (MidBody(pos, req) /\ MidBody(others.pos, others.req))]
  /\ UNCHANGED <<config, run, prev, hq>>

NextConcurrent ==
  \/ HmacExpectedSignatures
  \/ HmacInit
  \/ HmacBodyPrefix
  \/ HmacReadChunk
  \/ HmacCompare
  \/ PkExpectedSignature
  \/ PkPublicKey
  \/ PkReadChunk
  \/ PkVerify
  \/ VerifyAgain
  \/ Switch

SpecConcurrent == InitConcurrent /\ [][NextConcurrent]_vars

\* Request A: where its call stands, and its outcome, wherever the turn is.
PcOfA == IF others.id = 2 THEN pc ELSE others.pc
OutcomeOfA == IF others.id = 2 THEN outcome ELSE others.outcome
OutcomeOfB == IF others.id = 2 THEN others.outcome ELSE outcome
BothDone == pc = "done" /\ others.pc = "done"

\* C16: a request verified while another request is verified against the same
\* configuration, their steps and chunk reads interleaved in any order, ends
\* with the outcome and the bytes it gets when verified alone, and the shared
\* configuration is never written.
C16_ConcurrentAsAlone ==
  /\ config = Config0
  /\ (run = 2 /\ PcOfA = "done") => OutcomeOfA = prev
C16_Witness ==
  /\ run = 2 /\ BothDone /\ others.mixed
  /\ OutcomeOfA = prev /\ OutcomeOfA.tag = "Success" /\ OutcomeOfB.tag = "Error"

\* What the call of request A (id 1) or of request B (id 2) owns, wherever the
\* turn is.
CallOf(id) ==
  IF others.id = id THEN others
  ELSE [id |-> id, req |-> req, pc |-> pc, expected |-> expected, mac |-> mac,
        public_key |-> public_key, raw_body |-> raw_body, pos |-> pos,
        outcome |-> outcome, crypto |-> crypto, mixed |-> others.mixed]
\* The buffer of a call holds the chunks of its own stream that it has taken, and
\* its MAC its own prefix and those chunks: nothing of another request.
OwnState(c) ==
  /\ c.raw_body = ChunkBytes(SubSeq(c.req.stream, 1, c.pos - 1))
  /\ (c.req.provider \in HmacProviders /\ c.pos > 1) =>
       c.mac.data =
         BytesOf(BodyPrefix(c.req.provider, c.req.headers,
                            TimeBounds(c.req.now, config.timestamp_tolerance)))
         \o c.raw_body
\* The stream of the request fails after at least one chunk has arrived.
CancelledMidBody(request) == StreamHasError(request.stream) /\ Len(request.stream) > 1
ReadFailure(o) == o.tag = "Error" /\ o.kind = "Read" /\ ~o.hasData /\ o.data = <<>>

\* C22: a request cancelled while its body is streamed (the stream fails
\* mid-body) ends with a Read error that carries no bytes; the MAC and the
\* buffer of every call hold only what that call took from its own stream, so
\* the partial MAC and buffer of the cancelled request are never seen by or
\* reused for the other request, which ends as it does when verified alone.
C22_CancellationIsolated ==
  /\ \A id \in {1, 2} :
       /\ OwnState(CallOf(id))
       /\ (CallOf(id).pc = "done" /\ StreamHasError(CallOf(id).req.stream)) =>
            ReadFailure(CallOf(id).outcome)
  /\ (run = 2 /\ PcOfA = "done" /\ CancelledMidBody(CallOf(2).req)) => OutcomeOfA = prev
C22_Witness ==
  /\ run = 2 /\ BothDone /\ others.mixed
  /\ CancelledMidBody(CallOf(2).req) /\ ReadFailure(OutcomeOfB)
  /\ CallOf(2).raw_body # <<>>
  /\ OutcomeOfA.tag = "Success" /\ OutcomeOfA.data = ChunkBytes(CallOf(1).req.stream)
  /\ OutcomeOfA = prev

\* The signature header is missing, lacks its literal prefix, or has a candidate
\* that does not decode from its wire encoding.
BadSignatureHeader ==
  \/ req.recipe.sigHeader \in {"absent", "noprefix"}
  \/ \E i \in 1..Len(req.recipe.sig) : req.recipe.sig[i] = "junk"
\* Nothing of the body has been taken: no item asked of the stream, no buffer.
BodyUntouched ==
  pos = 1 /\ raw_body = <<>> /\ ~crypto.bodyRead /\ crypto.capacity = None

\* C27: for every provider, a request whose signature header is missing, lacks
\* its literal prefix or does not decode is rejected with MissingHeader or
\* InvalidHeader before the body stream is opened: no chunk has been consumed
\* when it is rejected.
C27_BadSignatureHeaderBeforeBody ==
  BadSignatureHeader =>
    /\ BodyUntouched
    /\ Done => (Failed("MissingHeader") \/ Failed("InvalidHeader"))
\* The same for the built-in providers.
BadSignatureHeaderBuiltIn ==
  (BadSignatureHeader /\ req.provider \in BuiltInProviders) =>
    /\ BodyUntouched
    /\ Done => (Failed("MissingHeader") \/ Failed("InvalidHeader"))
\* For every provider the body is untouched, whatever the kind of the error.
BadSignatureHeaderBodyUntouched ==
  BadSignatureHeader => (BodyUntouched /\ (Done => outcome.tag = "Error"))

\* The HMAC providers whose prefix carries a timestamp that is checked.
PrefixTimestampProviders == {"Slack", "Stripe", "Svix", "Standard"}
\* The error of the first step that fails, the steps taken in the order: expected
\* signatures, prefix, body, comparison.
FirstFailure ==
  LET sigs == ExpectedSignatures(req.provider, req.headers)
      pre == BodyPrefix(req.provider, req.headers, time_bounds)
  IN IF ~sigs.ok THEN sigs.err.kind
     ELSE IF ~pre.ok THEN pre.err.kind
     ELSE IF StreamHasError(req.stream) THEN "Read"
     ELSE IF VerifiedMessageMatches THEN "None" ELSE "Signature"
UndecodableAndStale ==
  /\ req.provider \in PrefixTimestampProviders
  /\ req.recipe.sigHeader = "present"
  /\ \E i \in 1..Len(req.recipe.sig) : req.recipe.sig[i] = "junk"
  /\ req.recipe.ts \in {"stale", "future"}
StaleAndReadError ==
  /\ req.provider \in PrefixTimestampProviders
  /\ CandidatesDecodable
  /\ req.recipe.ts \in {"stale", "future"}
  /\ HasId(req.provider) => req.recipe.id = "present"
  /\ StreamHasError(req.stream)

\* C29: the HMAC verifier takes its steps in the order expected signatures, MAC
\* keying, prefix (with the provider's timestamp and id checks), body, digest
\* comparison, and returns the error of the first step that fails: an
\* undecodable signature header with a stale timestamp fails with
\* InvalidHeader, a stale timestamp with a body read error fails with Timestamp.
C29_FirstFailingStep ==
  req.provider \in HmacProviders =>
    /\ crypto.macKeyed => ExpectedSignatures(req.provider, req.headers).ok
    /\ (crypto.capacity.some \/ pos > 1) =>
         (crypto.macKeyed /\ BodyPrefix(req.provider, req.headers, time_bounds).ok)
    /\ crypto.compared => (pos > Len(req.stream) /\ CleanRead)
    /\ Done => outcome.kind = FirstFailure
    /\ (Done /\ UndecodableAndStale) => Failed("InvalidHeader")
    /\ (Done /\ StaleAndReadError) => Failed("Timestamp")
C29_Witness ==
  /\ Done /\ StaleAndReadError /\ req.provider = "Slack" /\ Failed("Timestamp")
  /\ pos = 1 /\ crypto.macKeyed

\* The steps of the asymmetric verifier, each after the one before it: the
\* signature header, the public key, the whole body, the message, the algorithm.
PkStepsInOrder ==
  /\ crypto.keyObtained => ExpectedSignature(req.provider, req.headers).ok
  /\ (crypto.capacity.some \/ pos > 1) => crypto.keyObtained
  /\ crypto.bodyRead => (pos > Len(req.stream) /\ CleanRead /\ raw_body = ChunkBytes(req.stream))
  /\ crypto.verifyCalls \in {0, 1}
  /\ crypto.verifyCalls = 1 =>
       /\ crypto.bodyRead
       /\ MessageToVerify(req.provider, req.headers, ChunkBytes(req.stream), time_bounds).ok
StaleForPublicKey ==
  /\ req.recipe.ts \in {"stale", "future"}
  /\ CandidatesDecodable
  /\ CleanRead

\* C26: the asymmetric verifier extracts and decodes the signature header,
\* obtains the public key, reads the whole body, builds the message and
\* validates its timestamp, and then calls the algorithm: never on a partial
\* body, and a request with a stale timestamp fails with Timestamp before any
\* call of the algorithm.
C26_PublicKeyOrder ==
  req.provider \in PublicKeyProviders =>
    /\ PkStepsInOrder
    /\ (Done /\ StaleForPublicKey) => (Failed("Timestamp") /\ crypto.verifyCalls = 0)
\* The same with the stale timestamp taken for Discord only.
PublicKeyOrderDiscord ==
  req.provider \in PublicKeyProviders =>
    /\ PkStepsInOrder
    /\ (Done /\ StaleForPublicKey /\ req.provider = "Discord") =>
         (Failed("Timestamp") /\ crypto.verifyCalls = 0)

\* ------------------------------------------------ the authenticated bytes
\* Correctly signed requests of the built-in providers whose timestamp is in
\* the window and written in more than one way: plain, with a leading '+', with
\* a leading zero.
MessageTsKinds == {"fresh", "plus", "zero"}
MessageRequests ==
  UNION {{Request(p, [sigHeader |-> "present", sig |-> <<k>>,
                      ts |-> (IF HasTimestamp(p) THEN t ELSE "absent"),
                      id |-> (IF HasId(p) THEN "present" ELSE "absent")], st, now) :
            k \in {"good", "flip"}, t \in MessageTsKinds, st \in Streams, now \in NowValues} :
           p \in BuiltInProviders}

InitMessage ==
  /\ config = Config0
  /\ req \in MessageRequests
  /\ pc = "start"
  /\ run = 1
  /\ expected = <<>>
  /\ mac = UnkeyedMac
  /\ public_key = None
  /\ raw_body = <<>>
  /\ pos = 1
  /\ outcome = Pending
  /\ prev = Pending
  /\ crypto = NoCrypto
  /\ hq = NoQuery
  /\ others = NoOthers

NextMessage ==
  \/ HmacExpectedSignatures
  \/ HmacInit
  \/ HmacBodyPrefix
  \/ HmacReadChunk
  \/ HmacCompare
  \/ PkExpectedSignature
  \/ PkPublicKey
  \/ PkReadChunk
  \/ PkVerify

SpecMessage == InitMessage /\ [][NextMessage]_vars

\* The timestamp and id of the request as the sender wrote them.
SentTimestamp == TsString(req.recipe.ts, time_bounds, req.now)
SentId == IdString(req.recipe.id)

\* C24: for each built-in provider the bytes that are authenticated are the
\* table's message: the body for GitHub and Shopify, "v0:" ts ":" body for
\* Slack, ts "." body for Stripe, id "." ts "." body for Svix and Standard,
\* ts body for Discord and SendGrid, the timestamp and id being the header
\* values as received, byte for byte.
C24_AuthenticatedBytes ==
  (req.provider \in BuiltInProviders /\ crypto.compared) =>
    /\ crypto.message.some
    /\ crypto.message.val =
         DeclaredMessage(req.provider, SentTimestamp, SentId, ChunkBytes(req.stream))
    /\ req.recipe.sig = <<"good">> => Succeeded
C24_Witness ==
  /\ Done /\ req.provider = "Slack" /\ req.recipe.ts = "plus" /\ req.recipe.sig = <<"good">>
  /\ Succeeded /\ Len(req.stream) > 0

\* ------------------------------------------------------------ termination
\* The verification is always given its next step: weak fairness of Next, with
\* ENABLED <<Next>>_vars written out (a step is possible until the second
\* verification of the request has ended).
Quiescent == pc = "done" /\ run = 2
SpecLive == Init /\ [][Next]_vars /\ ([]<>Quiescent \/ []<><<Next>>_vars)

\* The bytes of the chunks taken from the stream so far.
ReadSoFar == ChunkBytes(SubSeq(req.stream, 1, pos - 1))
ChunksTaken == Cardinality({i \in 1..(pos - 1) : req.stream[i].ok})
\* One pass over the stream: the items are taken in order, each one once; what
\* was taken is in the buffer and, after the prefix, in the MAC; nothing is
\* asked of the stream after an item that failed.
SinglePassState ==
  /\ pos \in 1..(Len(req.stream) + 1)
  /\ raw_body = ReadSoFar
  /\ \A i \in 1..(pos - 2) : req.stream[i].ok
  /\ pos > 1 =>
       /\ SuppliedPrefix.ok
       /\ mac.data = BytesOf(SuppliedPrefix) \o ReadSoFar
       /\ crypto.macUpdates = (IF SuppliedPrefix.val.some THEN 1 ELSE 0) + ChunksTaken
  /\ (pos > 1 /\ ~req.stream[pos - 1].ok) => (Done /\ Failed("Read"))
SinglePassStep ==
  run' = run =>
    /\ pos' \in {pos, pos + 1}
    /\ outcome # Pending => outcome' = outcome

\* C28: for any finite body stream the HMAC verifier ends with exactly one
\* outcome after a single pass: each chunk is taken from the stream once and
\* goes to the MAC and to the buffer, the stream is never restarted, and no
\* chunk is asked for after the first read error.
C28_SinglePassTerminates ==
  /\ [](req.provider \in HmacProviders => SinglePassState)
  /\ [][req.provider \in HmacProviders => SinglePassStep]_vars
  /\ (req.provider \in HmacProviders) ~> (Done /\ outcome # Pending)
C28_Witness ==
  /\ Done /\ req.provider \in HmacProviders /\ Succeeded
  /\ Len(req.stream) >= 2 /\ pos = Len(req.stream) + 1
  /\ crypto.macUpdates = ChunksTaken + (IF SuppliedPrefix.val.some THEN 1 ELSE 0)

\* ------------------------------------------- the Stripe-Signature header
\* StripeWebhook's two hooks on Stripe-Signature headers put together from
\* elements: timestamps in and out of the window, signatures that decode and
\* one that does not, an element with another key and one without a key.
MaxParts == 3
StripeNow == U32Of(1000)
StripeElements ==
  {[key |-> <<"t">>, val |-> <<"1", "0", "0", "0">>, bytes |-> <<>>],
   [key |-> <<"t">>, val |-> <<"6", "9", "9">>, bytes |-> <<>>],
   [key |-> <<"v", "1">>, val |-> <<"0", "1", "a", "b">>, bytes |-> <<1, 171>>],
   [key |-> <<"v", "1">>, val |-> <<"C", "D", "0", "2">>, bytes |-> <<205, 2>>],
   [key |-> <<"v", "1">>, val |-> <<"z", "z">>, bytes |-> <<>>],
   [key |-> <<"v", "0">>, val |-> <<"0", "1", "a", "b">>, bytes |-> <<1, 171>>],
   [key |-> <<>>, val |-> <<"x">>, bytes |-> <<>>]}
ElementText(e) == IF e.key = <<>> THEN e.val ELSE e.key \o <<"=">> \o e.val
StripeHeaderText(parts) == JoinWith([i \in 1..Len(parts) |-> ElementText(parts[i])], ",")
StripeQueries ==
  {[parts |-> q, asked |-> FALSE, signatures |-> Err(Pending), prefix |-> Err(Pending)] :
     q \in SeqsUpTo(StripeElements, MaxParts)}

InitStripe ==
  /\ config = Config0
  /\ req = Request("GitHub", [sigHeader |-> "absent", sig |-> <<>>, ts |-> "absent",
                              id |-> "absent"], <<>>, StripeNow)
  /\ pc = "stripe"
  /\ run = 1
  /\ expected = <<>>
  /\ mac = UnkeyedMac
  /\ public_key = None
  /\ raw_body = <<>>
  /\ pos = 1
  /\ outcome = Pending
  /\ prev = Pending
  /\ crypto = NoCrypto
  /\ hq \in StripeQueries
  /\ others = NoOthers

\* self.expected_signatures(req) and self.body_prefix(req, time_bounds) on a
\* request that carries the header.
StripeHooksCall ==
  /\ pc = "stripe" /\ ~hq.asked
  /\ LET headers == <<Header(H_STRIPE_SIG, StripeHeaderText(hq.parts))>>
     IN hq' = [hq EXCEPT !.asked = TRUE,
                         !.signatures = StripeExpectedSignatures(headers),
                         !.prefix = StripeBodyPrefix(headers, time_bounds)]
  /\ UNCHANGED <<config, req, pc, run, expected, mac, public_key, raw_body, pos, outcome,
                 prev, crypto, others>>

NextStripe == StripeHooksCall

SpecStripe == InitStripe /\ [][NextStripe]_vars

\* The elements of a key, in the order of the header.
ElementsOf(parts, key) == SelectSeq(parts, LAMBDA e : e.key = key)
InWindowText(val) == val = <<"1", "0", "0", "0">>

\* C25: for Stripe the timestamp is the value of the first element of
\* Stripe-Signature that starts with "t=", and the expected signatures are the
\* hex-decoded values of the elements that start with "v1=", in header order; a
\* header without a "t=" element fails with InvalidHeader; elements with any
\* other key are ignored.
C25_StripeHeader ==
  hq.asked =>
    LET ts == ElementsOf(hq.parts, <<"t">>)
        v1 == ElementsOf(hq.parts, <<"v", "1">>)
    IN /\ IF ts = <<>>
          THEN ~hq.prefix.ok /\ hq.prefix.err.kind = "InvalidHeader"
               /\ hq.prefix.err.status = "BadRequest"
          ELSE IF InWindowText(ts[1].val)
          THEN hq.prefix.ok /\ hq.prefix.val = Some(AsBytes(ts[1].val \o <<".">>))
          ELSE ~hq.prefix.ok /\ hq.prefix.err.kind = "Timestamp"
       /\ IF \A i \in 1..Len(v1) : v1[i].val # <<"z", "z">>
          THEN hq.signatures.ok /\ hq.signatures.val = [i \in 1..Len(v1) |-> v1[i].bytes]
          ELSE ~hq.signatures.ok /\ hq.signatures.err.kind = "InvalidHeader"
C25_Witness ==
  /\ hq.asked /\ Len(hq.parts) = 3
  /\ hq.parts[1].key = <<"v", "0">> /\ hq.parts[2].key = <<"t">> /\ hq.parts[3].key = <<"t">>
  /\ hq.parts[2].val # hq.parts[3].val
  /\ hq.prefix.ok /\ hq.signatures.ok /\ hq.signatures.val = <<>>

\* ------------------------------------------------ the comparison on its own
\* ct_eq of a digest with two candidates: of the digest's length and one byte
\* shorter, equal to the digest or different from it at any position.
MaxSigLen == 3
CompareBytes == {0, 255}
CompareCandidates == UNION {[1..k -> CompareBytes] : k \in (MaxSigLen - 1)..MaxSigLen}
CompareQueries ==
  [digest : [1..MaxSigLen -> CompareBytes], a : CompareCandidates, b : CompareCandidates,
   asked : {FALSE}, ra : {[eq |-> FALSE, work |-> 0]}, rb : {[eq |-> FALSE, work |-> 0]}]

InitCompare ==
  /\ config = Config0
  /\ req = Request("GitHub", [sigHeader |-> "absent", sig |-> <<>>, ts |-> "absent",
                              id |-> "absent"], <<>>, U32Of(1000))
  /\ pc = "compare"
  /\ run = 1
  /\ expected = <<>>
  /\ mac = UnkeyedMac
  /\ public_key = None
  /\ raw_body = <<>>
  /\ pos = 1
  /\ outcome = Pending
  /\ prev = Pending
  /\ crypto = NoCrypto
  /\ hq \in CompareQueries
  /\ others = NoOthers

\* body_sig.ct_eq(&signature) for each of the two candidates.
CompareCall ==
  /\ pc = "compare" /\ ~hq.asked
  /\ hq' = [hq EXCEPT !.asked = TRUE, !.ra = ct_eq(hq.digest, hq.a),
                      !.rb = ct_eq(hq.digest, hq.b)]
  /\ UNCHANGED <<config, req, pc, run, expected, mac, public_key, raw_body, pos, outcome,
                 prev, crypto, others>>

NextCompare == CompareCall

SpecCompare == InitCompare /\ [][NextCompare]_vars

\* The first position at which a candidate differs from the digest (0: nowhere).
FirstMismatch(candidate) ==
  LET at == {i \in 1..Len(candidate) : candidate[i] # hq.digest[i]}
  IN IF at = {} THEN 0 ELSE CHOOSE i \in at : \A j \in at : i <= j

\* C23: the comparison of the digest with a candidate is constant-time: the
\* number of byte comparisons made for a candidate does not depend on where it
\* first differs from the digest, so two candidates of equal length cost the
\* same work; and it answers equal exactly for the digest itself.
C23_ConstantTime ==
  hq.asked =>
    /\ Len(hq.a) = Len(hq.b) => hq.ra.work = hq.rb.work
    /\ Len(hq.a) = Len(hq.digest) => hq.ra.work = Len(hq.digest)
    /\ hq.ra.eq <=> hq.a = hq.digest
    /\ hq.rb.eq <=> hq.b = hq.digest
C23_Witness ==
  /\ hq.asked /\ Len(hq.a) = Len(hq.digest) /\ Len(hq.b) = Len(hq.digest)
  /\ FirstMismatch(hq.a) = 1 /\ FirstMismatch(hq.b) = Len(hq.digest)
  /\ hq.ra.work = hq.rb.work /\ ~hq.ra.eq /\ ~hq.rb.eq

\* ------------------------------------------------------ the body size limit
\* Configurations with a small max_body_size, and bodies shorter than, as long
\* as and longer than it.  The sender signs the whole body, or exactly the
\* bytes that fit the limit.
MaxLimit == 3
LimitProviders == {"Slack", "Discord"}
LimitConfigs == {[Config0 EXCEPT !.max_body_size = n] : n \in 0..MaxLimit}
LimitRecipes ==
  {[sigHeader |-> "present", sig |-> <<k>>, ts |-> "fresh", id |-> "absent"] :
     k \in {"good", "flip"}}
LimitRequests(limit) ==
  UNION {{Request(p, r, st, now) : r \in LimitRecipes, st \in Streams, now \in NowValues}
         \cup {[Request(p, r, DataOpen(st, limit), now) EXCEPT !.stream = st] :
                 r \in LimitRecipes, st \in Streams, now \in NowValues} :
           p \in LimitProviders}

InitLimit ==
  /\ config \in LimitConfigs
  /\ req \in LimitRequests(config.max_body_size)
  /\ pc = "start"
  /\ run = 1
  /\ expected = <<>>
  /\ mac = UnkeyedMac
  /\ public_key = None
  /\ raw_body = <<>>
  /\ pos = 1
  /\ outcome = Pending
  /\ prev = Pending
  /\ crypto = NoCrypto
  /\ hq = NoQuery
  /\ others = NoOthers

NextLimit ==
  \/ HmacExpectedSignatures
  \/ HmacInit
  \/ HmacBodyPrefix
  \/ HmacReadChunk
  \/ HmacCompare
  \/ PkExpectedSignature
  \/ PkPublicKey
  \/ PkReadChunk
  \/ PkVerify

SpecLimit == InitLimit /\ [][NextLimit]_vars

\* The bytes of the body the sender sent, and the bytes that fit the limit.
SentBody == ChunkBytes(req.stream)
BodyTooLong == Len(SentBody) > config.max_body_size
IsPrefixOf(a, b) == Len(a) <= Len(b) /\ SubSeq(b, 1, Len(a)) = a
\* The body bytes that have gone into the MAC: what follows the prefix.
MacBodyLen ==
  Len(mac.data) - (IF SuppliedPrefix.ok /\ mac.data # <<>> THEN Len(BytesOf(SuppliedPrefix))
                   ELSE 0)

\* C21: max_body_size is applied to the body stream before the first chunk is
\* read: in every state of the read loop the buffer holds at most max_body_size
\* bytes, the first ones of the body, and at most max_body_size body bytes have
\* been fed into the MAC.
C21_BodySizeBound ==
  /\ Len(raw_body) <= config.max_body_size
  /\ IsPrefixOf(raw_body, SentBody)
  /\ req.provider \in HmacProviders => MacBodyLen <= config.max_body_size
  /\ (req.provider \in HmacProviders /\ pos > 1) => MacBodyLen = Len(raw_body)
C21_Witness ==
  /\ BodyTooLong /\ pc = "read" /\ pos > Len(BodyStream)
  /\ req.provider \in HmacProviders
  /\ config.max_body_size > 0
  /\ Len(raw_body) = config.max_body_size /\ MacBodyLen = config.max_body_size

\* C30: a request whose body is longer than max_body_size never yields Success,
\* also when the sender's signature is valid for exactly the first
\* max_body_size bytes of the body.
C30_TooLongNeverSucceeds ==
  BodyTooLong => outcome.tag # "Success"
\* What does hold: a success returns the bytes that fit the limit.
SuccessIsWithinLimit ==
  outcome.tag = "Success" =>
    /\ outcome.data = ChunkBytes(BodyStream)
    /\ Len(outcome.data) <= config.max_body_size
====
